---- MODULE Spec2Model ----
(***************************************************************************)
(* Model of the review pipeline of backend/app: the Orchestrator           *)
(* (services/orchestrator.py), the fan-out agents it drives                *)
(* (agents/clarity.py, agents/rigor/finder.py) and the Assembler           *)
(* (services/assembler.py).                                                *)
(*                                                                         *)
(* Scheduling is asyncio's: one thread, a task runs from one suspension    *)
(* point to the next without interleaving.  The suspension points of a     *)
(* run are the completion calls (agent.run / client.call), a wait on a     *)
(* latch that is not yet set, asyncio.gather and as_completed.  A put on   *)
(* the unbounded event queue and an uncontended lock never suspend, so     *)
(* each action below is one such segment of one task.                      *)
(***************************************************************************)
EXTENDS Integers, Sequences, FiniteSets, TLC

\* ------------------------------------------------------------------ bounds
\* Largest number of chunks chunk_for_clarity yields for the documents tried.
MaxChunks == 1
\* Largest number of section chunks chunk_for_rigor yields.
MaxSections == 1
\* Largest number of findings one completion call returns.
MaxFindings == 1
\* Number of concurrent callers of LLMClient.call, and the largest configured
\* cap, in the runs of the call substrate.
MaxCallers == 3
MaxCap == 2
\* Longest list of findings given to the Assembler alone, and the number of
\* times it is run on that list.
MaxInput == 3
MaxRuns == 2
\* Largest number of chunks in the runs of one fan-out agent alone.
FanChunks == 3

\* ------------------------------------------------------------------ names
AgentTasks == {"briefing", "domain", "clarity", "rigor_find", "rigor_rewrite", "adversary"}
Tasks == AgentTasks \cup {"complete"}
FanOut == {"clarity", "rigor_find"}

\* all_tasks, in the order asyncio.create_task is called: a new task's first
\* segment runs in that order (the event loop's ready queue is FIFO).
all_tasks == <<"briefing", "domain", "clarity", "rigor_find", "rigor_rewrite", "adversary", "complete">>

TaskIndex(t) == CHOOSE i \in 1..Len(all_tasks) : all_tasks[i] = t

Ended == {"done", "failed", "cancelled"}

\* ------------------------------------------------------------------ values
\* BriefingOutput | None
NoBriefing == "None"
SomeBriefing == "BriefingOutput"
\* EvidencePack.empty() and a pack the pipeline produced
EmptyEvidence == "EvidencePack.empty"
SomeEvidence == "EvidencePack"

\* Track of a finding, derived from the producing agent.
AGENT_TO_TRACK(agent_id) ==
    CASE agent_id = "clarity" -> "A"
      [] agent_id \in {"rigor_find", "rigor_rewrite"} -> "B"
      [] agent_id \in {"adversary", "domain"} -> "C"
      [] OTHER -> "A"

\* Dimensions of a finding, derived from its category; every agent here
\* reports in its own family of categories.
CATEGORY_TO_DIMENSIONS(agent_id) ==
    CASE agent_id = "clarity" -> <<"WQ">>
      [] agent_id \in {"rigor_find", "rigor_rewrite"} -> <<"CR">>
      [] agent_id = "domain" -> <<"AS", "CR">>
      [] OTHER -> <<"AS">>

\* None, for an optional sentence id and an optional proposed edit.
NoSentence == "None"
NoEdit == [type |-> "None"]

Anchor(paragraph_id, sentence_id, quoted_text) ==
    [paragraph_id |-> paragraph_id, sentence_id |-> sentence_id,
     quoted_text |-> quoted_text]

\* Finding(...): track and dimensions are derived by auto_derive_fields.
Finding(id, agent_id, anchors, proposed_edit) ==
    [id |-> id, agent_id |-> agent_id, severity |-> "minor", anchors |-> anchors,
     proposed_edit |-> proposed_edit, track |-> AGENT_TO_TRACK(agent_id),
     dimensions |-> CATEGORY_TO_DIMENSIONS(agent_id)]

\* The text the k-th finding of a call quotes.
QuotedWords == <<"a", "b", "c", "d", "e">>

\* The k-th finding a completion call of `agent_id` returns for chunk `chunk`
\* (chunk -1: an agent that does not fan out).  The id is the uuid4 default;
\* chunk i is paragraph i of the document, and the whole-document agent
\* anchors its findings in paragraph 0, so that findings of different agents
\* can quote the same text.
NewFinding(agent_id, chunk, k) ==
    Finding(<<agent_id, chunk, k>>, agent_id,
            <<Anchor(IF chunk < 0 THEN 0 ELSE chunk, NoSentence,
                     <<QuotedWords[((k - 1) % Len(QuotedWords)) + 1]>>)>>,
            NoEdit)

\* AgentMetrics of one completion call.
AgentMetrics(agent_id, chunk) == [agent_id |-> agent_id, chunk_index |-> chunk]

\* ------------------------------------------------------------------ events
AgentStartedEvent(agent_id) == [type |-> "agent_started", agent_id |-> agent_id]

AgentCompletedEvent(agent_id, n) ==
    [type |-> "agent_completed", agent_id |-> agent_id, findings_count |-> n]

ChunkCompletedEvent(agent_id, i, total, n, failed) ==
    [type |-> "chunk_completed", agent_id |-> agent_id, chunk_index |-> i,
     total_chunks |-> total, findings_count |-> n, failed |-> failed]

FindingDiscoveredEvent(f) == [type |-> "finding_discovered", finding |-> f]

ReviewCompletedEvent(fs) ==
    [type |-> "review_completed", total_findings |-> Len(fs), findings |-> fs]

ErrorEvent(message, recoverable) ==
    [type |-> "error", message |-> message, recoverable |-> recoverable]

\* The None the finalization task puts to end the stream.
EndOfStream == [type |-> "None"]

\* ------------------------------------------------------------------ text
\* str.lower() on the alphabet used here.
LowerChar(c) ==
    CASE c = "A" -> "a"
      [] c = "B" -> "b"
      [] c = "C" -> "c"
      [] OTHER -> c

lower(text) == [i \in 1..Len(text) |-> LowerChar(text[i])]

\* str.strip(): leading and trailing whitespace removed.
strip(text) ==
    LET ink == {i \in 1..Len(text) : text[i] # " "}
    IN IF ink = {} THEN <<>>
       ELSE SubSeq(text, CHOOSE i \in ink : \A j \in ink : i <= j,
                         CHOOSE i \in ink : \A j \in ink : i >= j)

\* a in b, for strings.
IsSubstring(a, b) == \E i \in 0..(Len(b) - Len(a)) : SubSeq(b, i + 1, i + Len(a)) = a

\* str.split(): the maximal runs of non-whitespace characters, in order.
RECURSIVE SplitFrom(_, _, _, _)
SplitFrom(text, i, word, acc) ==
    IF i > Len(text)
    THEN IF word = <<>> THEN acc ELSE Append(acc, word)
    ELSE IF text[i] = " "
    THEN SplitFrom(text, i + 1, <<>>, IF word = <<>> THEN acc ELSE Append(acc, word))
    ELSE SplitFrom(text, i + 1, Append(word, text[i]), acc)

split(text) == SplitFrom(text, 1, <<>>, <<>>)

Range(seq) == {seq[i] : i \in 1..Len(seq)}

Min(a, b) == IF a <= b THEN a ELSE b

\* ------------------------------------------------------------------ Assembler
AGENT_PRIORITY(agent_id) ==
    CASE agent_id \in {"adversary", "adversary_panel"} -> 1
      [] agent_id \in {"rigor_rewrite", "rigor_find", "domain"} -> 2
      [] agent_id = "clarity" -> 3
      [] agent_id = "briefing" -> 4
      [] OTHER -> 99

PRESENTATION_ORDER(agent_id) ==
    CASE agent_id = "clarity" -> 1
      [] agent_id \in {"rigor_find", "rigor_rewrite"} -> 2
      [] agent_id = "domain" -> 3
      [] agent_id \in {"adversary", "adversary_panel"} -> 4
      [] OTHER -> 99

\* An n-gram rule that finds nothing.
NoNgrams(text, n) == {}

\* The word n-grams of a text.
_get_ngrams(text, n) ==
    LET words == split(text)
    IN {SubSeq(words, i, i + n - 1) : i \in 1..(Len(words) - n + 1)}

\* A test of the sentence id that never finds one.
NeverHasSentenceId(anchor) == FALSE

\* "if anchor.sentence_id": None and the empty string are false.
HasSentenceId(anchor) == anchor.sentence_id \notin {NoSentence, ""}

_detect_overlap(anchor1, anchor2) ==
    IF anchor1.paragraph_id # anchor2.paragraph_id THEN FALSE
    ELSE IF HasSentenceId(anchor1) /\ HasSentenceId(anchor2)
    THEN anchor1.sentence_id = anchor2.sentence_id
    ELSE LET text1 == strip(lower(anchor1.quoted_text))
             text2 == strip(lower(anchor2.quoted_text))
             words1 == Range(split(text1))
             words2 == Range(split(text2))
             min_words == Min(Cardinality(words1), Cardinality(words2))
         IN \/ text1 = text2
            \/ IsSubstring(text1, text2)
            \/ IsSubstring(text2, text1)
            \/ /\ words1 # {}
               /\ words2 # {}
               /\ \/ 2 * Cardinality(words1 \cap words2) > min_words
                  \/ \E length \in 2..min_words :
                        _get_ngrams(text1, length) \cap _get_ngrams(text2, length) # {}

_findings_overlap(f1, f2, para_id) ==
    \E i \in 1..Len(f1.anchors), j \in 1..Len(f2.anchors) :
        /\ f1.anchors[i].paragraph_id = para_id
        /\ f2.anchors[j].paragraph_id = para_id
        /\ _detect_overlap(f1.anchors[i], f2.anchors[j])

\* <<winner, loser>>
_resolve_conflict(f1, f2) ==
    IF f1.track = "C" /\ f2.track = "A" THEN <<f1, f2>>
    ELSE IF f2.track = "C" /\ f1.track = "A" THEN <<f2, f1>>
    ELSE IF AGENT_PRIORITY(f1.agent_id) <= AGENT_PRIORITY(f2.agent_id) THEN <<f1, f2>>
    ELSE <<f2, f1>>

\* dims, then each element of more that is not yet in it, in order.
RECURSIVE AppendMissing(_, _)
AppendMissing(dims, more) ==
    IF more = <<>> THEN dims
    ELSE AppendMissing(IF Head(more) \in Range(dims) THEN dims ELSE Append(dims, Head(more)),
                       Tail(more))

\* by_paragraph: the keys in insertion order, and the list of one key (a
\* finding is appended once per anchor in that paragraph).
RECURSIVE ParagraphKeys(_, _)
ParagraphKeys(anchors, keys) ==
    IF anchors = <<>> THEN keys
    ELSE ParagraphKeys(Tail(anchors),
                       IF Head(anchors).paragraph_id \in Range(keys) THEN keys
                       ELSE Append(keys, Head(anchors).paragraph_id))

RECURSIVE AllAnchors(_)
AllAnchors(findings) ==
    IF findings = <<>> THEN <<>> ELSE Head(findings).anchors \o AllAnchors(Tail(findings))

\* A grouping that files a finding under the paragraph of its first anchor only.
RECURSIVE by_first_anchor(_, _)
by_first_anchor(findings, para_id) ==
    IF findings = <<>> THEN <<>>
    ELSE (IF Head(findings).anchors[1].paragraph_id = para_id THEN <<Head(findings)>> ELSE <<>>)
         \o by_first_anchor(Tail(findings), para_id)

RECURSIVE by_paragraph(_, _)
by_paragraph(findings, para_id) ==
    IF findings = <<>> THEN <<>>
    ELSE LET f == Head(findings)
             n == Cardinality({i \in 1..Len(f.anchors) : f.anchors[i].paragraph_id = para_id})
         IN [i \in 1..n |-> f] \o by_paragraph(Tail(findings), para_id)

\* The loops of _dedup_with_track_priority over st = [removed_ids, merged_dimensions,
\* resolutions]; resolutions is what the loop logs, one line per conflict it
\* resolved: the loser, and the winner that replaced it.
NothingResolved == [removed_ids |-> {}, merged_dimensions |-> <<>>, resolutions |-> <<>>]

RECURSIVE InnerLoop(_, _, _, _)
InnerLoop(f1, rest, para_id, st) ==
    IF rest = <<>> THEN st
    ELSE LET f2 == Head(rest) IN
         IF f2.id \in st.removed_ids \/ f1.id = f2.id \/ ~_findings_overlap(f1, f2, para_id)
         THEN InnerLoop(f1, Tail(rest), para_id, st)
         ELSE LET wl == _resolve_conflict(f1, f2)
                  winner == wl[1]
                  loser == wl[2]
                  before == IF winner.id \in DOMAIN st.merged_dimensions
                            THEN st.merged_dimensions[winner.id]
                            ELSE winner.dimensions
                  after == AppendMissing(before, loser.dimensions)
              IN InnerLoop(f1, Tail(rest), para_id,
                           [removed_ids |-> st.removed_ids \cup {loser.id},
                            resolutions |-> Append(st.resolutions,
                                                   [winner |-> winner.id, loser |-> loser.id]),
                            merged_dimensions |->
                                [id \in DOMAIN st.merged_dimensions \cup {winner.id} |->
                                    IF id = winner.id THEN after
                                    ELSE st.merged_dimensions[id]]])

RECURSIVE OuterLoop(_, _, _, _)
OuterLoop(para_findings, i, para_id, st) ==
    IF i > Len(para_findings) THEN st
    ELSE OuterLoop(para_findings, i + 1, para_id,
                   IF para_findings[i].id \in st.removed_ids THEN st
                   ELSE InnerLoop(para_findings[i],
                                  SubSeq(para_findings, i + 1, Len(para_findings)),
                                  para_id, st))

RECURSIVE ParagraphLoop(_, _, _)
ParagraphLoop(findings, keys, st) ==
    IF keys = <<>> THEN st
    ELSE ParagraphLoop(findings, Tail(keys),
                       OuterLoop(by_paragraph(findings, Head(keys)), 1, Head(keys), st))

Resolved(findings) ==
    ParagraphLoop(findings, ParagraphKeys(AllAnchors(findings), <<>>),
                  NothingResolved)

\* A kept finding after the merged dimensions were appended to it.
WithMerged(f, st) ==
    IF f.id \in DOMAIN st.merged_dimensions
    THEN [f EXCEPT !.dimensions = AppendMissing(@, st.merged_dimensions[f.id])]
    ELSE f

RECURSIVE Kept(_, _, _)
Kept(findings, st, seen_ids) ==
    IF findings = <<>> THEN <<>>
    ELSE LET f == Head(findings) IN
         IF f.id \notin st.removed_ids /\ f.id \notin seen_ids
         THEN <<WithMerged(f, st)>> \o Kept(Tail(findings), st, seen_ids \cup {f.id})
         ELSE Kept(Tail(findings), st, seen_ids)

_dedup_with_track_priority(findings) ==
    IF findings = <<>> THEN <<>> ELSE Kept(findings, Resolved(findings), {})

\* No sort at all.
Unsorted(findings) == findings

\* list.sort(key=...) is stable: by key, then by position.
SortByPresentation(findings) ==
    LET Rank(r) == SelectSeq(findings, LAMBDA f : PRESENTATION_ORDER(f.agent_id) = r)
    IN Rank(1) \o Rank(2) \o Rank(3) \o Rank(4) \o Rank(99)

\* A dedup without the Track B exemption.
DeduplicateEveryTrack(findings) == SortByPresentation(_dedup_with_track_priority(findings))

_deduplicate(findings) ==
    LET track_b == SelectSeq(findings, LAMBDA f : f.track = "B")
        others == SelectSeq(findings, LAMBDA f : f.track # "B")
    IN SortByPresentation(track_b \o _dedup_with_track_priority(others))

\* Counter(key(f) for f in findings)
Counter(keys) ==
    [v \in Range(keys) |-> Cardinality({i \in 1..Len(keys) : keys[i] = v})]

\* ReviewSummary.from_findings: the fields the model class declares.
ReviewSummary(findings) ==
    [total_findings |-> Len(findings),
     by_track |-> Counter([i \in 1..Len(findings) |-> findings[i].track]),
     by_severity |-> Counter([i \in 1..Len(findings) |-> findings[i].severity])]

ReviewMetadataOutput(metrics) == [agents_run |-> {metrics[i].agent_id : i \in 1..Len(metrics)}]

\* No document given to assemble.
NoDoc == [given |-> FALSE, paragraphs |-> <<>>]

\* DocObj.validate_anchor_text
validate_anchor_text(d, paragraph_id, quoted_text) ==
    /\ paragraph_id \in DOMAIN d.paragraphs
    /\ IsSubstring(quoted_text, d.paragraphs[paragraph_id])

\* _validate_findings: a replace edit whose quoted text is not in its paragraph.
Ungrounded(f, d) ==
    /\ f.proposed_edit.type = "replace"
    /\ f.proposed_edit.anchor.paragraph_id \in DOMAIN d.paragraphs
    /\ ~validate_anchor_text(d, f.proposed_edit.anchor.paragraph_id,
                             f.proposed_edit.anchor.quoted_text)

\* A validation that leaves every edit as it came.
NotDowngraded(f, d) == f

\* The finding object after the validation loop visited it: a Track C finding
\* with an ungrounded replace edit has its edit type rewritten in place.
Downgraded(f, d) ==
    IF Ungrounded(f, d) /\ f.track = "C"
    THEN [f EXCEPT !.proposed_edit.type = "suggestion"]
    ELSE f

\* A validation that looks at the first anchor only.
IsValidByFirstAnchor(f, d) ==
    /\ f.anchors[1].paragraph_id \in DOMAIN d.paragraphs
    /\ ~(Ungrounded(f, d) /\ f.track # "C")

IsValid(f, d) ==
    /\ \A i \in 1..Len(f.anchors) : f.anchors[i].paragraph_id \in DOMAIN d.paragraphs
    /\ ~(Ungrounded(f, d) /\ f.track # "C")

RECURSIVE _validate_findings(_, _)
_validate_findings(findings, d) ==
    IF findings = <<>> THEN <<>>
    ELSE (IF IsValid(Head(findings), d) THEN <<Downgraded(Head(findings), d)>> ELSE <<>>)
         \o _validate_findings(Tail(findings), d)

\* Assembler.assemble -> ReviewOutput
assemble(findings, metrics, d) ==
    IF findings = <<>>
    THEN [findings |-> <<>>,
          summary |-> ReviewSummary(<<>>),
          metadata |-> ReviewMetadataOutput(metrics)]
    ELSE LET validated == IF d.given THEN _validate_findings(findings, d) ELSE findings
             deduped == _deduplicate(validated)
         IN [findings |-> deduped,
             summary |-> ReviewSummary(deduped),
             metadata |-> ReviewMetadataOutput(metrics)]

\* The list given to assemble, as the caller sees it after the call: assemble
\* works on the caller's Finding objects, so the edit downgrade and the merged
\* dimensions show in them (objects are identified by their id).
AfterAssemble(findings, d) ==
    LET visited == IF d.given THEN [i \in 1..Len(findings) |-> Downgraded(findings[i], d)]
                   ELSE findings
        validated == IF d.given THEN _validate_findings(findings, d) ELSE findings
        others == SelectSeq(validated, LAMBDA f : f.track # "B")
        st == IF others = <<>> THEN NothingResolved
              ELSE Resolved(others)
        kept_ids == {others[i].id : i \in 1..Len(others)} \ st.removed_ids
    IN [i \in 1..Len(visited) |->
           IF visited[i].id \in kept_ids THEN WithMerged(visited[i], st) ELSE visited[i]]

\* ------------------------------------------------------------------ state
VARIABLES
    settings,               \* get_settings(): the agent toggles
    config,                 \* ReviewConfig of the request
    doc,                    \* what the chunkers make of the document
    pc,                     \* where each task of the run is
    event_queue,            \* everything put on the event queue, in put order
    briefing_ready,         \* the three latches (asyncio.Event)
    domain_ready,
    rigor_find_ready,
    briefing_result,
    evidence_result,
    rigor_findings_result,
    all_findings,           \* accumulators
    all_metrics,
    chunk_tasks,            \* fan-out: state and result of each chunk task
    completed,              \* fan-out: as_completed's queue of finished chunks
    chunk_metrics,          \* fan-out: the agent task's local chunk_metrics
    total_findings,         \* run_clarity's local counter
    call_args,              \* the arguments each agent's run was called with
    assembler_calls,        \* the arguments of each Assembler.assemble call
    log_errors,             \* the agents _log_error was called for
    consumer,               \* where the generator's event loop is
    received,               \* the events the generator yielded, in order
    taken,                  \* how many items it got from the queue
    cleanup_at,             \* the position of the cleanup loop in all_tasks
    cancel_requested,       \* the tasks task.cancel() was called on
    max_concurrent_agents,  \* the setting the call semaphore is created from
    _semaphore,             \* core/llm.py's module-level semaphore
    calls,                  \* where each caller of LLMClient.call is
    retry_state,            \* each call's attempt number and the exception of its last attempt
    findings_lock,          \* the asyncio.Lock around all_findings
    metrics_lock,           \* the asyncio.Lock around all_metrics
    adders,                 \* where each task is in add_finding / add_metrics
    running,                \* the task the event loop is running, or "none"
    anchor_pair,            \* the two anchors _detect_overlap is given
    overlap,                \* what _detect_overlap returned for them
    input_findings,         \* the list a caller of Assembler.assemble holds
    input_doc,              \* the document that caller passes
    submitted,              \* the list as it was when each assemble call began
    review_outputs          \* the ReviewOutput of each assemble call

vars == <<settings, config, doc, pc, event_queue, briefing_ready, domain_ready,
          rigor_find_ready, briefing_result, evidence_result, rigor_findings_result,
          all_findings, all_metrics, chunk_tasks, completed, chunk_metrics,
          total_findings, call_args, assembler_calls, log_errors, consumer, received,
          taken, cleanup_at, cancel_requested, max_concurrent_agents, _semaphore, calls,
          retry_state, findings_lock, metrics_lock, adders, running, anchor_pair,
          overlap, input_findings, input_doc, submitted, review_outputs>>

assembly == <<input_findings, input_doc, submitted, review_outputs>>

substrate == <<max_concurrent_agents, _semaphore, calls, retry_state>>

locks == <<findings_lock, metrics_lock, adders, running>>

pairs == <<anchor_pair, overlap>>

stream == <<consumer, received, taken, cleanup_at, cancel_requested>>

latches == <<briefing_ready, domain_ready, rigor_find_ready>>
results == <<briefing_result, evidence_result, rigor_findings_result>>
inputs == <<settings, config, doc>>
fanout == <<chunk_tasks, completed, chunk_metrics, total_findings>>

NoCall == [called |-> FALSE, briefing |-> NoBriefing, rigor_findings |-> <<>>,
           evidence |-> EmptyEvidence]

Call(b, r, e) == [called |-> TRUE, briefing |-> b, rigor_findings |-> r, evidence |-> e]

\* Settings.max_concurrent_agents as shipped.
DefaultMaxConcurrentAgents == 8

\* The tasks that call LLMClient.call in the runs of the call substrate.
Callers == 1..MaxCallers

\* _semaphore = None: not created yet.
\* No pair of anchors given, and no answer yet.
NoPair == <<>>
NotDetected == [called |-> FALSE, result |-> FALSE]

\* The tasks that call add_finding and add_metrics.
LockUsers == {"clarity", "rigor_find", "adversary"}

\* How many times one task adds to an accumulator.
MaxAdds == 2

\* asyncio.Lock(): free, nobody waiting.
Unlocked == [locked |-> FALSE, holder |-> "none", waiters |-> <<>>]

\* A task in its agent's code, outside add_finding and add_metrics.
NotAdding == [pc |-> "agent", op |-> "none", added |-> 0]

\* A caller that has made no attempt yet.
NotCalled == [attempt_number |-> 0, exception |-> "none"]

NoSemaphore == [created |-> FALSE, value |-> 0, waiters |-> <<>>]

\* The state review() sets up before it creates the tasks, for a document
\* among docs.
StartWith(docs, caps, documents, anchor_pairs) ==
    /\ settings \in [enable_briefing : BOOLEAN, enable_clarity : BOOLEAN,
                     enable_rigor : BOOLEAN, enable_domain : BOOLEAN,
                     enable_adversary : BOOLEAN]
    /\ config \in [enable_domain : BOOLEAN]
    /\ doc \in docs
    /\ pc = [t \in Tasks |-> "created"]
    /\ event_queue = <<>>
    /\ briefing_ready = FALSE
    /\ domain_ready = FALSE
    /\ rigor_find_ready = FALSE
    /\ briefing_result = NoBriefing
    /\ evidence_result = EmptyEvidence
    /\ rigor_findings_result = <<>>
    /\ all_findings = <<>>
    /\ all_metrics = <<>>
    /\ chunk_tasks = [a \in FanOut |-> <<>>]
    /\ completed = [a \in FanOut |-> <<>>]
    /\ chunk_metrics = [a \in FanOut |-> <<>>]
    /\ total_findings = 0
    /\ call_args = [a \in AgentTasks |-> NoCall]
    /\ assembler_calls = <<>>
    /\ log_errors = {}
    /\ consumer = "reading"
    /\ received = <<>>
    /\ taken = 0
    /\ cleanup_at = 1
    /\ cancel_requested = {}
    /\ max_concurrent_agents \in caps
    /\ _semaphore = NoSemaphore
    /\ calls = [c \in Callers |-> "idle"]
    /\ retry_state = [c \in Callers |-> NotCalled]
    /\ findings_lock = Unlocked
    /\ metrics_lock = Unlocked
    /\ adders = [t \in LockUsers |-> NotAdding]
    /\ running = "none"
    /\ anchor_pair \in anchor_pairs
    /\ overlap = NotDetected
    /\ input_findings = <<>>
    /\ input_doc \in documents
    /\ submitted = <<>>
    /\ review_outputs = <<>>

\* A run of review(): _detect_overlap is given nothing before the Assembler runs.
Start(docs, caps, documents) == StartWith(docs, caps, documents, {NoPair})

Init ==
    Start([clarity_chunks : 0..MaxChunks, rigor_chunks : 0..MaxSections],
          {DefaultMaxConcurrentAgents}, {NoDoc})

\* ------------------------------------------------------------------ helpers
\* The first segment of task t runs once every task created before it has run
\* its own first segment.
Scheduled(t) ==
    /\ pc[t] = "created"
    /\ \A i \in 1..(TaskIndex(t) - 1) : pc[all_tasks[i]] # "created"

\* Every task created at launch has run its first segment: only then can a
\* suspended task be resumed (its call returned, its latch was set).
AllStarted == \A t \in Tasks : pc[t] # "created"

\* A launch block that starts the Domain task when either switch is on.
LaunchedOnEitherSwitch(t) ==
    CASE t = "briefing" -> settings.enable_briefing
      [] t = "domain" -> settings.enable_domain \/ config.enable_domain
      [] t = "clarity" -> settings.enable_clarity
      [] t \in {"rigor_find", "rigor_rewrite"} -> settings.enable_rigor
      [] t = "adversary" -> settings.enable_adversary
      [] OTHER -> TRUE

\* Which coroutine each task was created with (the launch block).
Launched(t) ==
    CASE t = "briefing" -> settings.enable_briefing
      [] t = "domain" -> settings.enable_domain /\ config.enable_domain
      [] t = "clarity" -> settings.enable_clarity
      [] t \in {"rigor_find", "rigor_rewrite"} -> settings.enable_rigor
      [] t = "adversary" -> settings.enable_adversary
      [] OTHER -> TRUE

\* add_metrics: append one record or extend by a list.
add_metrics(ms) == all_metrics' = all_metrics \o ms

\* Events for all the findings but the last.
DiscoveredButLast(fs) == [i \in 1..(Len(fs) - 1) |-> FindingDiscoveredEvent(fs[i])]

\* The FindingDiscovered events of a list of findings, in order.
Discovered(fs) == [i \in 1..Len(fs) |-> FindingDiscoveredEvent(fs[i])]

\* ------------------------------------------------------------------ skip_agent
skip_agent(t) ==
    /\ t \in AgentTasks
    /\ Scheduled(t)
    /\ ~Launched(t)
    /\ pc' = [pc EXCEPT ![t] = "done"]
    /\ briefing_ready' = (briefing_ready \/ t = "briefing")
    /\ domain_ready' = (domain_ready \/ t = "domain")
    /\ rigor_find_ready' = (rigor_find_ready \/ t = "rigor_find")
    /\ UNCHANGED <<inputs, event_queue, results, all_findings, all_metrics, fanout,
                   call_args, assembler_calls, log_errors>>
    /\ UNCHANGED <<stream, substrate, assembly, locks, pairs>>

\* ------------------------------------------------------------------ run_briefing
\* Up to the await of briefing_agent.run.
run_briefing ==
    /\ Scheduled("briefing")
    /\ Launched("briefing")
    /\ event_queue' = Append(event_queue, AgentStartedEvent("briefing"))
    /\ call_args' = [call_args EXCEPT !["briefing"] = Call(NoBriefing, <<>>, EmptyEvidence)]
    /\ pc' = [pc EXCEPT !["briefing"] = "calling"]
    /\ UNCHANGED <<inputs, latches, results, all_findings, all_metrics, fanout,
                   assembler_calls, log_errors>>
    /\ UNCHANGED <<stream, substrate, assembly, locks, pairs>>

\* briefing_agent.run returned.
briefing_returns ==
    /\ AllStarted
    /\ pc["briefing"] = "calling"
    /\ briefing_result' = SomeBriefing
    /\ add_metrics(<<AgentMetrics("briefing", -1)>>)
    /\ event_queue' = Append(event_queue, AgentCompletedEvent("briefing", 0))
    /\ briefing_ready' = TRUE
    /\ pc' = [pc EXCEPT !["briefing"] = "done"]
    /\ UNCHANGED <<inputs, domain_ready, rigor_find_ready, evidence_result,
                   rigor_findings_result, all_findings, fanout, call_args,
                   assembler_calls, log_errors>>
    /\ UNCHANGED <<stream, substrate, assembly, locks, pairs>>

\* briefing_agent.run raised: the error event, re-raise, and the finally.
briefing_raises ==
    /\ AllStarted
    /\ pc["briefing"] = "calling"
    /\ event_queue' = Append(event_queue, ErrorEvent("Briefing failed", FALSE))
    /\ briefing_ready' = TRUE
    /\ pc' = [pc EXCEPT !["briefing"] = "failed"]
    /\ log_errors' = log_errors \cup {"briefing"}
    /\ UNCHANGED <<inputs, domain_ready, rigor_find_ready, results, all_findings,
                   all_metrics, fanout, call_args, assembler_calls>>
    /\ UNCHANGED <<stream, substrate, assembly, locks, pairs>>

\* ------------------------------------------------------------------ run_domain
run_domain ==
    /\ Scheduled("domain")
    /\ Launched("domain")
    /\ IF ~config.enable_domain
       THEN /\ domain_ready' = TRUE
            /\ pc' = [pc EXCEPT !["domain"] = "done"]
            /\ UNCHANGED <<event_queue, call_args>>
       ELSE /\ event_queue' = Append(event_queue, AgentStartedEvent("domain"))
            /\ call_args' = [call_args EXCEPT !["domain"] = Call(NoBriefing, <<>>, EmptyEvidence)]
            /\ pc' = [pc EXCEPT !["domain"] = "calling"]
            /\ UNCHANGED domain_ready
    /\ UNCHANGED <<inputs, briefing_ready, rigor_find_ready, results, all_findings,
                   all_metrics, fanout, assembler_calls, log_errors>>
    /\ UNCHANGED <<stream, substrate, assembly, locks, pairs>>

domain_returns ==
    /\ AllStarted
    /\ pc["domain"] = "calling"
    /\ evidence_result' = SomeEvidence
    /\ add_metrics(<<AgentMetrics("domain", -1)>>)
    /\ event_queue' = Append(event_queue, AgentCompletedEvent("domain", 0))
    /\ domain_ready' = TRUE
    /\ pc' = [pc EXCEPT !["domain"] = "done"]
    /\ UNCHANGED <<inputs, briefing_ready, rigor_find_ready, briefing_result,
                   rigor_findings_result, all_findings, fanout, call_args,
                   assembler_calls, log_errors>>
    /\ UNCHANGED <<stream, substrate, assembly, locks, pairs>>

\* domain_pipeline.run raised: logged, evidence reset, no event.
domain_raises ==
    /\ AllStarted
    /\ pc["domain"] = "calling"
    /\ evidence_result' = EmptyEvidence
    /\ domain_ready' = TRUE
    /\ pc' = [pc EXCEPT !["domain"] = "done"]
    /\ log_errors' = log_errors \cup {"domain"}
    /\ UNCHANGED <<inputs, event_queue, briefing_ready, rigor_find_ready,
                   briefing_result, rigor_findings_result, all_findings, all_metrics,
                   fanout, call_args, assembler_calls>>
    /\ UNCHANGED <<stream, substrate, assembly, locks, pairs>>

\* ------------------------------------------------------------------ fan-out chunks
\* run_streaming: one task per chunk, each awaiting its completion call.
Dispatch(n) ==
    [i \in 0..(n - 1) |->
        [state |-> "calling", findings |-> <<>>, error |-> FALSE, finished |-> 0]]

\* The place of a chunk task that finishes now among the chunk tasks of its
\* agent, in the order they finished.
FinishedNext(a) ==
    Cardinality({j \in DOMAIN chunk_tasks[a] : chunk_tasks[a][j].state # "calling"}) + 1

\* The findings a chunk's completion call returns.
ChunkFindings(a, i, n) == [k \in 1..n |-> NewFinding(a, i, k)]

\* A chunk whose result overtakes the results that wait to be yielded.
process_with_index_returns_first(a, i, n) ==
    /\ AllStarted
    /\ pc[a] \in {"streaming", "cancelled"}
    /\ i \in DOMAIN chunk_tasks[a]
    /\ chunk_tasks[a][i].state = "calling"
    /\ chunk_tasks' = [chunk_tasks EXCEPT
                         ![a][i] = [state |-> "returned", error |-> FALSE,
                                    finished |-> FinishedNext(a),
                                    findings |-> ChunkFindings(a, i, n)]]
    /\ completed' = [completed EXCEPT ![a] = <<i>> \o @]
    /\ UNCHANGED <<inputs, pc, event_queue, latches, results, all_findings, all_metrics,
                   chunk_metrics, total_findings, call_args, assembler_calls, log_errors>>
    /\ UNCHANGED <<stream, substrate, assembly, locks, pairs>>

\* process_with_index: the chunk's call returned n findings.
process_with_index_returns(a, i, n) ==
    /\ AllStarted
    /\ pc[a] \in {"streaming", "cancelled"}
    /\ i \in DOMAIN chunk_tasks[a]
    /\ chunk_tasks[a][i].state = "calling"
    /\ chunk_tasks' = [chunk_tasks EXCEPT
                         ![a][i] = [state |-> "returned", error |-> FALSE,
                                    finished |-> FinishedNext(a),
                                    findings |-> ChunkFindings(a, i, n)]]
    /\ completed' = [completed EXCEPT ![a] = Append(@, i)]
    /\ UNCHANGED <<inputs, pc, event_queue, latches, results, all_findings, all_metrics,
                   chunk_metrics, total_findings, call_args, assembler_calls, log_errors>>
    /\ UNCHANGED <<stream, substrate, assembly, locks, pairs>>

\* A chunk whose exception is not caught: it ends the agent's stream, the
\* sibling chunks are never yielded.
process_with_index_propagates(a, i) ==
    /\ AllStarted
    /\ pc[a] = "streaming"
    /\ i \in DOMAIN chunk_tasks[a]
    /\ chunk_tasks[a][i].state = "calling"
    /\ chunk_tasks' = [chunk_tasks EXCEPT
                         ![a][i] = [state |-> "returned", error |-> TRUE, findings |-> <<>>,
                                    finished |-> FinishedNext(a)]]
    /\ pc' = [pc EXCEPT ![a] = "done"]
    /\ UNCHANGED <<inputs, event_queue, latches, results, all_findings, all_metrics,
                   completed, chunk_metrics, total_findings, call_args, assembler_calls,
                   log_errors>>
    /\ UNCHANGED <<stream, substrate, assembly, locks, pairs>>

\* process_with_index: the chunk's call raised; the error is the result.
process_with_index_raises(a, i) ==
    /\ AllStarted
    /\ pc[a] \in {"streaming", "cancelled"}
    /\ i \in DOMAIN chunk_tasks[a]
    /\ chunk_tasks[a][i].state = "calling"
    /\ chunk_tasks' = [chunk_tasks EXCEPT
                         ![a][i] = [state |-> "returned", error |-> TRUE, findings |-> <<>>,
                                    finished |-> FinishedNext(a)]]
    /\ completed' = [completed EXCEPT ![a] = Append(@, i)]
    /\ UNCHANGED <<inputs, pc, event_queue, latches, results, all_findings, all_metrics,
                   chunk_metrics, total_findings, call_args, assembler_calls, log_errors>>
    /\ UNCHANGED <<stream, substrate, assembly, locks, pairs>>

\* The events the loop body puts for one chunk result.
ChunkEvents(a, i, total, r) ==
    IF r.error
    THEN <<ChunkCompletedEvent(a, i, total, 0, TRUE)>>
    ELSE Discovered(r.findings) \o <<ChunkCompletedEvent(a, i, total, Len(r.findings), FALSE)>>

\* as_completed has nothing more to yield once every chunk task was yielded.
LastChunk(a, i) == \A j \in DOMAIN chunk_tasks[a] : j # i => chunk_tasks[a][j].state = "yielded"

\* ------------------------------------------------------------------ run_clarity
\* A wait that suspends although the latch is open.
clarity_waits_on_open_latch ==
    /\ pc' = [pc EXCEPT !["clarity"] = "waiting"]
    /\ UNCHANGED <<event_queue, call_args, chunk_tasks>>

\* The segment from the latch to the first await of as_completed.
clarity_start ==
    LET n == doc.clarity_chunks IN
    /\ event_queue' = Append(event_queue, AgentStartedEvent("clarity"))
    /\ call_args' = [call_args EXCEPT !["clarity"] = Call(briefing_result, <<>>, EmptyEvidence)]
    /\ chunk_tasks' = [chunk_tasks EXCEPT !["clarity"] = Dispatch(n)]
    /\ pc' = [pc EXCEPT !["clarity"] = IF n = 0 THEN "done" ELSE "streaming"]

\* A Clarity that also waits for the Domain latch.
run_clarity_after_domain ==
    /\ Launched("clarity")
    /\ \/ Scheduled("clarity")
       \/ AllStarted /\ pc["clarity"] = "waiting" /\ briefing_ready /\ domain_ready
    /\ IF briefing_ready /\ domain_ready
       THEN clarity_start
       ELSE /\ pc' = [pc EXCEPT !["clarity"] = "waiting"]
            /\ UNCHANGED <<event_queue, call_args, chunk_tasks>>
    /\ UNCHANGED <<inputs, latches, results, all_findings, all_metrics, completed,
                   chunk_metrics, total_findings, assembler_calls, log_errors>>
    /\ UNCHANGED <<stream, substrate, assembly, locks, pairs>>

run_clarity ==
    /\ Launched("clarity")
    /\ \/ Scheduled("clarity")
       \/ AllStarted /\ pc["clarity"] = "waiting" /\ briefing_ready
    /\ IF briefing_ready
       THEN clarity_start
       ELSE /\ pc' = [pc EXCEPT !["clarity"] = "waiting"]
            /\ UNCHANGED <<event_queue, call_args, chunk_tasks>>
    /\ UNCHANGED <<inputs, latches, results, all_findings, all_metrics, completed,
                   chunk_metrics, total_findings, assembler_calls, log_errors>>
    /\ UNCHANGED <<stream, substrate, assembly, locks, pairs>>

\* One iteration of the async for; after the last chunk, the aggregate block.
clarity_chunk ==
    /\ AllStarted
    /\ pc["clarity"] = "streaming"
    /\ completed["clarity"] # <<>>
    /\ LET i == Head(completed["clarity"])
           r == chunk_tasks["clarity"][i]
           ok == ~r.error
           ms == IF ok THEN Append(chunk_metrics["clarity"], AgentMetrics("clarity", i))
                 ELSE chunk_metrics["clarity"]
           tf == total_findings + Len(r.findings)
           last == LastChunk("clarity", i)
           agg == last /\ ms # <<>>
       IN /\ completed' = [completed EXCEPT !["clarity"] = Tail(@)]
          /\ chunk_tasks' = [chunk_tasks EXCEPT !["clarity"][i].state = "yielded"]
          /\ chunk_metrics' = [chunk_metrics EXCEPT !["clarity"] = ms]
          /\ total_findings' = tf
          /\ all_findings' = all_findings \o r.findings
          /\ event_queue' = event_queue
                 \o ChunkEvents("clarity", i, doc.clarity_chunks, r)
                 \o (IF agg THEN <<AgentCompletedEvent("clarity", tf)>> ELSE <<>>)
          /\ add_metrics(IF agg THEN ms ELSE <<>>)
          /\ pc' = [pc EXCEPT !["clarity"] = IF last THEN "done" ELSE "streaming"]
    /\ UNCHANGED <<inputs, latches, results, call_args, assembler_calls, log_errors>>
    /\ UNCHANGED <<stream, substrate, assembly, locks, pairs>>

\* ------------------------------------------------------------------ run_rigor_find
rigor_find_start ==
    LET n == doc.rigor_chunks IN
    /\ event_queue' = Append(event_queue, AgentStartedEvent("rigor_find"))
    /\ call_args' = [call_args EXCEPT !["rigor_find"] = Call(briefing_result, <<>>, EmptyEvidence)]
    /\ chunk_tasks' = [chunk_tasks EXCEPT !["rigor_find"] = Dispatch(n)]
    /\ pc' = [pc EXCEPT !["rigor_find"] = IF n = 0 THEN "done" ELSE "streaming"]
    /\ rigor_find_ready' = (n = 0)

run_rigor_find ==
    /\ Launched("rigor_find")
    /\ \/ Scheduled("rigor_find")
       \/ AllStarted /\ pc["rigor_find"] = "waiting" /\ briefing_ready
    /\ IF briefing_ready
       THEN rigor_find_start
       ELSE /\ pc' = [pc EXCEPT !["rigor_find"] = "waiting"]
            /\ UNCHANGED <<event_queue, call_args, chunk_tasks, rigor_find_ready>>
    /\ UNCHANGED <<inputs, briefing_ready, domain_ready, results, all_findings,
                   all_metrics, completed, chunk_metrics, total_findings,
                   assembler_calls, log_errors>>
    /\ UNCHANGED <<stream, substrate, assembly, locks, pairs>>

\* run_rigor_find between the latch and its try: RigorFinder(...) or
\* get_sections(doc) raises. The task ends with the exception; no handler of
\* the task is entered yet.
rigor_find_raises_before_try ==
    /\ Launched("rigor_find")
    /\ \/ Scheduled("rigor_find")
       \/ AllStarted /\ pc["rigor_find"] = "waiting"
    /\ briefing_ready
    /\ pc' = [pc EXCEPT !["rigor_find"] = "failed"]
    /\ UNCHANGED <<inputs, event_queue, latches, results, all_findings, all_metrics,
                   fanout, call_args, assembler_calls, log_errors>>
    /\ UNCHANGED <<stream, substrate, assembly, locks, pairs>>

rigor_find_chunk ==
    /\ AllStarted
    /\ pc["rigor_find"] = "streaming"
    /\ completed["rigor_find"] # <<>>
    /\ LET i == Head(completed["rigor_find"])
           r == chunk_tasks["rigor_find"][i]
           ok == ~r.error
           ms == IF ok THEN Append(chunk_metrics["rigor_find"], AgentMetrics("rigor_find", i))
                 ELSE chunk_metrics["rigor_find"]
           rf == rigor_findings_result \o r.findings
           last == LastChunk("rigor_find", i)
           agg == last /\ ms # <<>>
       IN /\ completed' = [completed EXCEPT !["rigor_find"] = Tail(@)]
          /\ chunk_tasks' = [chunk_tasks EXCEPT !["rigor_find"][i].state = "yielded"]
          /\ chunk_metrics' = [chunk_metrics EXCEPT !["rigor_find"] = ms]
          /\ rigor_findings_result' = rf
          /\ all_findings' = all_findings \o r.findings
          /\ event_queue' = event_queue
                 \o ChunkEvents("rigor_find", i, doc.rigor_chunks, r)
                 \o (IF agg THEN <<AgentCompletedEvent("rigor_find", Len(rf))>> ELSE <<>>)
          /\ add_metrics(IF agg THEN ms ELSE <<>>)
          /\ rigor_find_ready' = last
          /\ pc' = [pc EXCEPT !["rigor_find"] = IF last THEN "done" ELSE "streaming"]
    /\ UNCHANGED <<inputs, briefing_ready, domain_ready, briefing_result,
                   evidence_result, total_findings, call_args, assembler_calls, log_errors>>
    /\ UNCHANGED <<stream, substrate, assembly, locks, pairs>>

\* ------------------------------------------------------------------ run_rigor_rewrite
run_rigor_rewrite ==
    /\ Launched("rigor_rewrite")
    /\ \/ Scheduled("rigor_rewrite")
       \/ AllStarted /\ pc["rigor_rewrite"] = "waiting" /\ rigor_find_ready
    /\ IF ~rigor_find_ready
       THEN /\ pc' = [pc EXCEPT !["rigor_rewrite"] = "waiting"]
            /\ UNCHANGED <<event_queue, call_args>>
       ELSE IF rigor_findings_result = <<>>
       THEN /\ pc' = [pc EXCEPT !["rigor_rewrite"] = "done"]
            /\ UNCHANGED <<event_queue, call_args>>
       ELSE /\ event_queue' = Append(event_queue, AgentStartedEvent("rigor_rewrite"))
            /\ call_args' = [call_args EXCEPT !["rigor_rewrite"] =
                                Call(NoBriefing, rigor_findings_result, EmptyEvidence)]
            /\ pc' = [pc EXCEPT !["rigor_rewrite"] = "calling"]
    /\ UNCHANGED <<inputs, latches, results, all_findings, all_metrics, fanout,
                   assembler_calls, log_errors>>
    /\ UNCHANGED <<stream, substrate, assembly, locks, pairs>>

\* RigorRewriter.run: the batches (one per section) that succeeded are merged,
\* a failed batch is left out of what run returns.
Batches(fs) == {fs[k].id[2] : k \in 1..Len(fs)}

Rewritten(fs, ok) ==
    SelectSeq([k \in 1..Len(fs) |->
                  [fs[k] EXCEPT !.agent_id = "rigor_rewrite",
                                !.proposed_edit = [type |-> "suggestion",
                                                   anchor |-> fs[k].anchors[1]]]],
              LAMBDA f : f.id[2] \in ok)

BatchMetrics(ok) ==
    LET RECURSIVE Up(_)
        Up(left) == IF left = {} THEN <<>>
                    ELSE LET i == CHOOSE x \in left : \A y \in left : x <= y
                         IN <<AgentMetrics("rigor_rewrite", i)>> \o Up(left \ {i})
    IN Up(ok)

rigor_rewrite_returns(ok) ==
    /\ AllStarted
    /\ pc["rigor_rewrite"] = "calling"
    /\ ok \subseteq Batches(call_args["rigor_rewrite"].rigor_findings)
    /\ LET rewritten == Rewritten(call_args["rigor_rewrite"].rigor_findings, ok)
       IN /\ add_metrics(BatchMetrics(ok))
          /\ event_queue' = Append(event_queue,
                                   AgentCompletedEvent("rigor_rewrite", Len(rewritten)))
    /\ pc' = [pc EXCEPT !["rigor_rewrite"] = "done"]
    /\ UNCHANGED <<inputs, latches, results, all_findings, fanout, call_args,
                   assembler_calls, log_errors>>
    /\ UNCHANGED <<stream, substrate, assembly, locks, pairs>>

rigor_rewrite_raises ==
    /\ AllStarted
    /\ pc["rigor_rewrite"] = "calling"
    /\ pc' = [pc EXCEPT !["rigor_rewrite"] = "done"]
    /\ log_errors' = log_errors \cup {"rigor_rewrite"}
    /\ UNCHANGED <<inputs, event_queue, latches, results, all_findings, all_metrics,
                   fanout, call_args, assembler_calls>>
    /\ UNCHANGED <<stream, substrate, assembly, locks, pairs>>

\* ------------------------------------------------------------------ run_adversary
\* An Adversary that does not wait for the Domain latch.
AdversaryReadyWithoutDomain == briefing_ready /\ rigor_find_ready

\* The three waits run_adversary starts with.
AdversaryReady == briefing_ready /\ rigor_find_ready /\ domain_ready

run_adversary ==
    /\ Launched("adversary")
    /\ LET ready == AdversaryReady
       IN /\ \/ Scheduled("adversary")
             \/ AllStarted /\ pc["adversary"] = "waiting" /\ ready
          /\ IF ready
             THEN /\ event_queue' = Append(event_queue, AgentStartedEvent("adversary"))
                  /\ call_args' = [call_args EXCEPT !["adversary"] =
                                      Call(briefing_result, rigor_findings_result,
                                           evidence_result)]
                  /\ pc' = [pc EXCEPT !["adversary"] = "calling"]
             ELSE /\ pc' = [pc EXCEPT !["adversary"] = "waiting"]
                  /\ UNCHANGED <<event_queue, call_args>>
    /\ UNCHANGED <<inputs, latches, results, all_findings, all_metrics, fanout,
                   assembler_calls, log_errors>>
    /\ UNCHANGED <<stream, substrate, assembly, locks, pairs>>

adversary_returns(n) ==
    /\ AllStarted
    /\ pc["adversary"] = "calling"
    /\ LET adversary_findings == ChunkFindings("adversary", -1, n)
       IN /\ add_metrics(<<AgentMetrics("adversary", -1)>>)
          /\ all_findings' = all_findings \o adversary_findings
          /\ event_queue' = event_queue \o Discovered(adversary_findings)
                               \o <<AgentCompletedEvent("adversary", n)>>
    /\ pc' = [pc EXCEPT !["adversary"] = "done"]
    /\ UNCHANGED <<inputs, latches, results, fanout, call_args, assembler_calls, log_errors>>
    /\ UNCHANGED <<stream, substrate, assembly, locks, pairs>>

adversary_raises ==
    /\ AllStarted
    /\ pc["adversary"] = "calling"
    /\ pc' = [pc EXCEPT !["adversary"] = "done"]
    /\ log_errors' = log_errors \cup {"adversary"}
    /\ UNCHANGED <<inputs, event_queue, latches, results, all_findings, all_metrics,
                   fanout, call_args, assembler_calls>>
    /\ UNCHANGED <<stream, substrate, assembly, locks, pairs>>

\* ------------------------------------------------------------------ run_assembler_and_complete
\* getattr on a pydantic model: only declared fields (and properties) exist.
HasAttr(obj, name) == name \in DOMAIN obj

AssemblerWaitsFor == {"clarity", "rigor_rewrite", "adversary"}

run_assembler_and_complete ==
    \/ /\ Scheduled("complete")
       /\ pc' = [pc EXCEPT !["complete"] = "waiting"]
       /\ UNCHANGED <<inputs, event_queue, latches, results, all_findings, all_metrics,
                      fanout, call_args, assembler_calls, log_errors, stream, substrate, assembly, locks, pairs>>
    \/ /\ AllStarted
       /\ pc["complete"] = "waiting"
       /\ \A t \in AssemblerWaitsFor : pc[t] \in Ended
       /\ LET review_output == assemble(all_findings, all_metrics, NoDoc)
              built == HasAttr(review_output.summary, "by_dimension")
          IN /\ assembler_calls' = Append(assembler_calls,
                                          [findings |-> all_findings, metrics |-> all_metrics])
             /\ all_findings' = AfterAssemble(all_findings, NoDoc)
             /\ event_queue' = event_queue
                    \o <<AgentStartedEvent("assembler"),
                         AgentCompletedEvent("assembler", Len(review_output.findings))>>
                    \o (IF built
                        THEN <<ReviewCompletedEvent(review_output.findings), EndOfStream>>
                        ELSE <<>>)
             /\ pc' = [pc EXCEPT !["complete"] = IF built THEN "done" ELSE "failed"]
       /\ UNCHANGED <<inputs, latches, results, all_metrics, fanout, call_args,
                      log_errors, stream, substrate, assembly, locks, pairs>>

Next ==
    \/ \E t \in AgentTasks : skip_agent(t)
    \/ run_briefing
    \/ briefing_returns
    \/ briefing_raises
    \/ run_domain
    \/ domain_returns
    \/ domain_raises
    \/ run_clarity
    \/ clarity_chunk
    \/ run_rigor_find
    \/ rigor_find_chunk
    \/ \E a \in FanOut : \E i \in DOMAIN chunk_tasks[a], n \in 0..MaxFindings :
          process_with_index_returns(a, i, n)
    \/ \E a \in FanOut : \E i \in DOMAIN chunk_tasks[a] : process_with_index_raises(a, i)
    \/ run_rigor_rewrite
    \/ \E ok \in SUBSET Batches(call_args["rigor_rewrite"].rigor_findings) :
          rigor_rewrite_returns(ok)
    \/ rigor_rewrite_raises
    \/ run_adversary
    \/ \E n \in 0..MaxFindings : adversary_returns(n)
    \/ adversary_raises
    \/ run_assembler_and_complete

Spec == Init /\ [][Next]_vars

\* The runs in which RigorFind can also fail before its try.
NextWithEarlyFailure ==
    \/ Next
    \/ rigor_find_raises_before_try

SpecEarlyFailure == Init /\ [][NextWithEarlyFailure]_vars

\* ------------------------------------------------------------------ the event loop
\* The items put on the queue and not yet got, oldest first.
Pending == SubSeq(event_queue, taken + 1, Len(event_queue))

\* A queue that hands out the newest item first.
QueueGetNewest(q) == q[Len(q)]

\* asyncio.Queue.get: the oldest item.
QueueGet(q) == Head(q)

\* The first task at or after position i of all_tasks that is not done.
NotDoneFrom(i) ==
    LET left == {j \in i..Len(all_tasks) : pc[all_tasks[j]] \notin Ended}
    IN IF left = {} THEN Len(all_tasks) + 1
       ELSE CHOOSE j \in left : \A k \in left : j <= k

\* The cleanup loop from position i to its next await: the tasks that are done
\* are passed; the first that is not is cancelled and awaited.  CancelledError
\* is no Exception, so of the task's handlers only its finally runs: Briefing
\* and Domain cancelled in their call and RigorFind cancelled in its stream
\* set their latch.  The chunk tasks run_streaming created are in no list the
\* loop visits.
Cleanup(i) ==
    LET j == NotDoneFrom(i)
        t == all_tasks[j]
    IN /\ cleanup_at' = j + 1
       /\ IF j > Len(all_tasks)
          THEN /\ consumer' = "stopped"
               /\ UNCHANGED <<pc, latches, cancel_requested>>
          ELSE /\ consumer' = "cleanup"
               /\ cancel_requested' = cancel_requested \cup {t}
               /\ pc' = [pc EXCEPT ![t] = "cancelled"]
               /\ briefing_ready' = (briefing_ready \/ (t = "briefing" /\ pc[t] = "calling"))
               /\ domain_ready' = (domain_ready \/ (t = "domain" /\ pc[t] = "calling"))
               /\ rigor_find_ready' =
                     (rigor_find_ready \/ (t = "rigor_find" /\ pc[t] = "streaming"))

\* event = await event_queue.get(); None breaks the loop, anything else is
\* yielded.
consumer_get ==
    /\ AllStarted
    /\ consumer = "reading"
    /\ Pending # <<>>
    /\ taken' = taken + 1
    /\ IF QueueGet(Pending) = EndOfStream
       THEN /\ Cleanup(1)
            /\ UNCHANGED received
       ELSE /\ received' = Append(received, QueueGet(Pending))
            /\ UNCHANGED <<consumer, cleanup_at, cancel_requested, pc, latches>>
    /\ UNCHANGED <<inputs, event_queue, results, all_findings, all_metrics, fanout,
                   call_args, assembler_calls, log_errors>>
    /\ UNCHANGED <<substrate, assembly, locks, pairs>>

\* The reader of the generator goes away (client disconnect): the generator is
\* closed at its yield or cancelled in its get, and its finally runs.
consumer_cancel ==
    /\ AllStarted
    /\ consumer = "reading"
    /\ Cleanup(1)
    /\ UNCHANGED <<inputs, event_queue, results, all_findings, all_metrics, fanout,
                   call_args, assembler_calls, log_errors, received, taken>>
    /\ UNCHANGED <<substrate, assembly, locks, pairs>>

\* The cleanup loop goes on after the task it awaited has unwound.
cleanup ==
    /\ consumer = "cleanup"
    /\ Cleanup(cleanup_at)
    /\ UNCHANGED <<inputs, event_queue, results, all_findings, all_metrics, fanout,
                   call_args, assembler_calls, log_errors, received, taken>>
    /\ UNCHANGED <<substrate, assembly, locks, pairs>>

\* Runs with the consumer, of Briefing, Domain and Clarity (Rigor and Adversary
\* disabled): the tasks and the generator's event loop.
InitStream ==
    /\ Init
    /\ ~settings.enable_rigor /\ ~settings.enable_adversary
    /\ config.enable_domain
    /\ doc.rigor_chunks = 0

NextStream ==
    \/ \E t \in AgentTasks : skip_agent(t)
    \/ run_briefing
    \/ briefing_returns
    \/ briefing_raises
    \/ run_domain
    \/ domain_returns
    \/ domain_raises
    \/ run_clarity
    \/ clarity_chunk
    \/ \E i \in DOMAIN chunk_tasks["clarity"], n \in 0..MaxFindings :
          process_with_index_returns("clarity", i, n)
    \/ \E i \in DOMAIN chunk_tasks["clarity"] : process_with_index_raises("clarity", i)
    \/ run_assembler_and_complete
    \/ consumer_get
    \/ consumer_cancel
    \/ cleanup

SpecStream == InitStream /\ [][NextStream]_vars

\* ------------------------------------------------------------------ the call substrate
\* What lies outside core/llm.py; the call substrate touches none of it.
orchestration ==
    <<inputs, pc, event_queue, latches, results, all_findings, all_metrics,
      fanout, call_args, assembler_calls, log_errors, stream, assembly, locks, pairs>>

\* _get_semaphore: created on first use from the setting.
_get_semaphore ==
    IF _semaphore.created THEN _semaphore
    ELSE [created |-> TRUE, value |-> max_concurrent_agents, waiters |-> <<>>]

\* Semaphore.release: the slot goes to the oldest waiter if there is one.
Released(sem) ==
    IF sem.waiters = <<>> THEN [sem EXCEPT !.value = @ + 1]
    ELSE [sem EXCEPT !.waiters = Tail(@)]

Granted(sem) == IF sem.waiters = <<>> THEN {} ELSE {Head(sem.waiters)}

\* A way out of the call that keeps the slot.
ReleasedUnlessTimeout(sem, outcome) == IF outcome = "timeout" THEN sem ELSE Released(sem)

\* The exit of "async with _get_semaphore()" for a call that ended with outcome.
Exit(sem, outcome) == Released(sem)

\* _make_call_with_retry: stop=stop_after_attempt(3).
StopAfterAttempt == 3

stop(attempt_number) == attempt_number >= StopAfterAttempt

\* What an attempt can raise: the three types the decorator names, and any
\* other exception.
Exceptions == {"APIError", "RateLimitError", "APIConnectionError", "Exception"}

\* A retry condition that holds for whatever was raised.
retry_if_exception(exc) == TRUE

\* retry=retry_if_exception_type((APIError, RateLimitError, APIConnectionError))
retry_if_exception_type(exc) == exc \in {"APIError", "RateLimitError", "APIConnectionError"}

FirstAttempt == [attempt_number |-> 1, exception |-> "none"]

\* LLMClient.call up to its first suspension: the slot is taken if one is free
\* and nobody waits, and the first attempt is made, else the caller queues.
llm_call(c) ==
    /\ calls[c] = "idle"
    /\ LET sem == _get_semaphore
           free == sem.value > 0 /\ sem.waiters = <<>>
       IN /\ _semaphore' = IF free THEN [sem EXCEPT !.value = @ - 1]
                           ELSE [sem EXCEPT !.waiters = Append(@, c)]
          /\ calls' = [calls EXCEPT ![c] = IF free THEN "in_flight" ELSE "waiting"]
          /\ retry_state' = IF free THEN [retry_state EXCEPT ![c] = FirstAttempt]
                            ELSE retry_state
    /\ UNCHANGED <<max_concurrent_agents, orchestration>>

\* A caller that was handed a slot resumes and makes its first attempt.
call_resumes(c) ==
    /\ calls[c] = "granted"
    /\ calls' = [calls EXCEPT ![c] = "in_flight"]
    /\ retry_state' = [retry_state EXCEPT ![c] = FirstAttempt]
    /\ UNCHANGED <<max_concurrent_agents, _semaphore, orchestration>>

\* The ways a call ends: it returned, an exception left the retry loop, wait_for
\* timed out or the caller was cancelled; each leaves the async with block.
CallOutcomes == {"returned", "error", "timeout", "cancelled"}

\* Leaving "async with _get_semaphore()" with outcome.
Leave(c, outcome) ==
    LET sem == Exit(_semaphore, outcome)
        woken == IF sem.waiters # _semaphore.waiters THEN Granted(_semaphore) ELSE {}
    IN /\ _semaphore' = sem
       /\ calls' = [d \in Callers |->
                       IF d = c THEN outcome
                       ELSE IF d \in woken THEN "granted" ELSE calls[d]]

\* An attempt raises exc. The retry loop re-raises it if the retry condition
\* does not hold, raises RetryError if the attempts are used up, and sleeps
\* before the next attempt otherwise.
attempt_raises(c, exc) ==
    /\ calls[c] = "in_flight"
    /\ exc \in Exceptions
    /\ retry_state' = [retry_state EXCEPT ![c].exception = exc]
    /\ IF retry_if_exception_type(exc) /\ ~stop(retry_state[c].attempt_number)
       THEN /\ calls' = [calls EXCEPT ![c] = "sleeping"]
            /\ UNCHANGED _semaphore
       ELSE Leave(c, "error")
    /\ UNCHANGED <<max_concurrent_agents, orchestration>>

\* The wait of wait_exponential is over: the next attempt is made.
next_attempt(c) ==
    /\ calls[c] = "sleeping"
    /\ calls' = [calls EXCEPT ![c] = "in_flight"]
    /\ retry_state' = [retry_state EXCEPT ![c].attempt_number = @ + 1]
    /\ UNCHANGED <<max_concurrent_agents, _semaphore, orchestration>>

\* The call ends without an exception of an attempt: the attempt returned, or
\* wait_for timed out or the caller was cancelled, during an attempt or during
\* the wait between two attempts.
call_ends(c, outcome) ==
    /\ outcome \in CallOutcomes \ {"error"}
    /\ calls[c] \in (IF outcome = "returned" THEN {"in_flight"} ELSE {"in_flight", "sleeping"})
    /\ Leave(c, outcome)
    /\ UNCHANGED <<max_concurrent_agents, orchestration, retry_state>>

\* A caller is cancelled while it waits for a slot, or after it was handed one
\* and before it resumed: acquire gives a slot it was handed back.
call_cancelled(c) ==
    /\ calls[c] \in {"waiting", "granted"}
    /\ IF calls[c] = "waiting"
       THEN /\ _semaphore' = [_semaphore EXCEPT !.waiters = SelectSeq(@, LAMBDA d : d # c)]
            /\ calls' = [calls EXCEPT ![c] = "cancelled"]
       ELSE /\ _semaphore' = Released(_semaphore)
            /\ calls' = [d \in Callers |->
                            IF d = c THEN "cancelled"
                            ELSE IF d \in Granted(_semaphore) THEN "granted" ELSE calls[d]]
    /\ UNCHANGED <<max_concurrent_agents, orchestration, retry_state>>

InitCalls ==
    /\ Start([clarity_chunks : {0}, rigor_chunks : {0}], 1..MaxCap, {NoDoc})
    /\ \A k \in DOMAIN settings : ~settings[k]
    /\ ~config.enable_domain

NextCalls ==
    \/ \E c \in Callers : llm_call(c)
    \/ \E c \in Callers : call_resumes(c)
    \/ \E c \in Callers, exc \in Exceptions : attempt_raises(c, exc)
    \/ \E c \in Callers : next_attempt(c)
    \/ \E c \in Callers, outcome \in CallOutcomes : call_ends(c, outcome)
    \/ \E c \in Callers : call_cancelled(c)

SpecCalls == InitCalls /\ [][NextCalls]_vars

\* ------------------------------------------------------------------ the accumulator locks
\* add_finding and add_metrics statement by statement. The event loop runs one
\* task at a time; a task keeps running until it suspends at an await.
besides_accumulators ==
    <<inputs, pc, latches, results, fanout, call_args, assembler_calls, log_errors,
      stream, assembly, substrate, pairs>>

\* Where a task would suspend if the block held an await after the append.
SuspendsInsideTheBlock == {"agent", "release"}

\* Where a running task can suspend: at the awaits of its agent's code. The
\* block under either lock holds no await, and a put on the unbounded event
\* queue returns without suspending.
SuspensionPoints == {"agent"}

LockOf(op) == IF op = "add_finding" THEN findings_lock ELSE metrics_lock

SetLock(op, lock) ==
    /\ findings_lock' = IF op = "add_finding" THEN lock ELSE findings_lock
    /\ metrics_lock' = IF op = "add_finding" THEN metrics_lock ELSE lock

\* The event loop resumes a task that is ready to go on.
resume(t) ==
    /\ running = "none"
    /\ adders[t].pc \notin {"blocked", "woken"}
    /\ adders[t].pc = "agent" => adders[t].added < MaxAdds
    /\ running' = t
    /\ UNCHANGED <<findings_lock, metrics_lock, adders, all_findings, all_metrics,
                   event_queue, besides_accumulators>>

\* The running task reaches an await that suspends it.
suspend(t) ==
    /\ running = t
    /\ adders[t].pc \in SuspensionPoints
    /\ running' = "none"
    /\ UNCHANGED <<findings_lock, metrics_lock, adders, all_findings, all_metrics,
                   event_queue, besides_accumulators>>

\* The running task calls add_finding or add_metrics.
enter(t, op) ==
    /\ running = t
    /\ adders[t].pc = "agent"
    /\ adders[t].added < MaxAdds
    /\ op \in {"add_finding", "add_metrics"}
    /\ adders' = [adders EXCEPT ![t].pc = "acquire", ![t].op = op]
    /\ UNCHANGED <<findings_lock, metrics_lock, running, all_findings, all_metrics,
                   event_queue, besides_accumulators>>

\* "async with lock": Lock.acquire takes a free lock nobody waits for without
\* suspending, and queues and suspends otherwise; a waiter that release woke
\* takes the lock when the event loop resumes it.
lock_acquire(t) ==
    LET lock == LockOf(adders[t].op)
        woken == adders[t].pc = "woken"
        free == ~lock.locked /\ lock.waiters = <<>>
    IN /\ IF woken THEN running = "none" ELSE running = t /\ adders[t].pc = "acquire"
       /\ IF woken \/ free
          THEN /\ SetLock(adders[t].op,
                          [locked |-> TRUE, holder |-> t,
                           waiters |-> SelectSeq(lock.waiters, LAMBDA w : w # t)])
               /\ adders' = [adders EXCEPT ![t].pc = "append"]
               /\ running' = t
          ELSE /\ SetLock(adders[t].op, [lock EXCEPT !.waiters = Append(@, t)])
               /\ adders' = [adders EXCEPT ![t].pc = "blocked"]
               /\ running' = "none"
       /\ UNCHANGED <<all_findings, all_metrics, event_queue, besides_accumulators>>

\* The block under the lock: all_findings.append, all_metrics.append / extend.
accumulate(t) ==
    /\ running = t
    /\ adders[t].pc = "append"
    /\ IF adders[t].op = "add_finding"
       THEN /\ all_findings' = Append(all_findings, NewFinding(t, 0, adders[t].added + 1))
            /\ UNCHANGED all_metrics
       ELSE /\ add_metrics(<<AgentMetrics(t, adders[t].added)>>)
            /\ UNCHANGED all_findings
    /\ adders' = [adders EXCEPT ![t].pc = "release"]
    /\ UNCHANGED <<findings_lock, metrics_lock, running, event_queue, besides_accumulators>>

\* The exit of "async with lock": Lock.release frees the lock and wakes the
\* first waiter. add_metrics returns here; add_finding goes on to its put.
lock_release(t) ==
    LET lock == LockOf(adders[t].op)
        first == IF lock.waiters = <<>> THEN "none" ELSE Head(lock.waiters)
    IN /\ running = t
       /\ adders[t].pc = "release"
       /\ SetLock(adders[t].op, [lock EXCEPT !.locked = FALSE, !.holder = "none"])
       /\ adders' = [u \in LockUsers |->
                        IF u = t
                        THEN IF adders[t].op = "add_finding"
                             THEN [adders[t] EXCEPT !.pc = "put"]
                             ELSE [adders[t] EXCEPT !.pc = "agent", !.added = @ + 1]
                        ELSE IF u = first /\ adders[u].pc = "blocked"
                             THEN [adders[u] EXCEPT !.pc = "woken"]
                             ELSE adders[u]]
       /\ UNCHANGED <<running, all_findings, all_metrics, event_queue, besides_accumulators>>

\* add_finding after the block: the FindingDiscovered event of the finding
\* just added goes on the event queue.
put_finding(t) ==
    /\ running = t
    /\ adders[t].pc = "put"
    /\ event_queue' = Append(event_queue,
                             FindingDiscoveredEvent(NewFinding(t, 0, adders[t].added + 1)))
    /\ adders' = [adders EXCEPT ![t].pc = "agent", ![t].added = @ + 1]
    /\ UNCHANGED <<findings_lock, metrics_lock, running, all_findings, all_metrics,
                   besides_accumulators>>

InitLocks ==
    /\ Start([clarity_chunks : {0}, rigor_chunks : {0}], {DefaultMaxConcurrentAgents}, {NoDoc})
    /\ \A k \in DOMAIN settings : ~settings[k]
    /\ ~config.enable_domain

NextLocks ==
    \/ \E t \in LockUsers : resume(t)
    \/ \E t \in LockUsers : suspend(t)
    \/ \E t \in LockUsers, op \in {"add_finding", "add_metrics"} : enter(t, op)
    \/ \E t \in LockUsers : lock_acquire(t)
    \/ \E t \in LockUsers : accumulate(t)
    \/ \E t \in LockUsers : lock_release(t)
    \/ \E t \in LockUsers : put_finding(t)

SpecLocks == InitLocks /\ [][NextLocks]_vars

\* ------------------------------------------------------------------ _detect_overlap alone
\* Quoted texts: up to MaxWords words out of "a", "b" and "ab", joined by single
\* spaces, as they are and with a capital first letter between two spaces.
Words == {<<"a">>, <<"b">>, <<"a", "b">>}

MaxWords == 3

WordLists == UNION {[1..n -> Words] : n \in 1..MaxWords}

RECURSIVE join(_)
join(words) ==
    IF Len(words) = 1 THEN words[1]
    ELSE words[1] \o <<" ">> \o join(Tail(words))

UpperChar(c) ==
    CASE c = "a" -> "A"
      [] c = "b" -> "B"
      [] OTHER -> c

Padded(text) == <<" ", UpperChar(text[1])>> \o Tail(text) \o <<" ">>

QuotedTexts == {join(w) : w \in WordLists} \cup {Padded(join(w)) : w \in WordLists}

\* The sentence ids of an anchor: None, the empty string, and two ids.
SentenceIds == {NoSentence, "", "p_001_s_001", "p_001_s_002"}

\* Texts for the pairs with sentence ids: equal, contained, sharing a word.
FewTexts == {join(<<<<"a">>, <<"b">>>>), join(<<<<"a">>>>), join(<<<<"b">>, <<"a", "b">>>>)}

AnchorPairs ==
    {<<Anchor(1, NoSentence, t1), Anchor(p, NoSentence, t2)>> :
        t1 \in QuotedTexts, t2 \in QuotedTexts, p \in {1, 2}}
    \cup
    {<<Anchor(1, s1, t1), Anchor(p, s2, t2)>> :
        s1 \in SentenceIds, s2 \in SentenceIds, t1 \in FewTexts, t2 \in FewTexts, p \in {1, 2}}

\* _findings_overlap hands _detect_overlap a pair of anchors.
detect_overlap ==
    /\ anchor_pair # NoPair
    /\ ~overlap.called
    /\ overlap' = [called |-> TRUE, result |-> _detect_overlap(anchor_pair[1], anchor_pair[2])]
    /\ UNCHANGED <<anchor_pair, all_findings, all_metrics, event_queue, locks,
                   inputs, pc, latches, results, fanout, call_args, assembler_calls,
                   log_errors, stream, assembly, substrate>>

InitOverlap ==
    /\ StartWith([clarity_chunks : {0}, rigor_chunks : {0}], {DefaultMaxConcurrentAgents},
                 {NoDoc}, AnchorPairs)
    /\ \A k \in DOMAIN settings : ~settings[k]
    /\ ~config.enable_domain

NextOverlap == detect_overlap

SpecOverlap == InitOverlap /\ [][NextOverlap]_vars

\* ------------------------------------------------------------------ the Assembler alone
\* Quoted texts: "a b", "B" (inside "a b" once lower-cased), "c", and "x",
\* which no paragraph contains.
Text_ab == <<"a", " ", "b">>
Text_B == <<"B">>
Text_c == <<"c">>
Text_x == <<"x">>

\* A DocObj of two paragraphs, ids 1 and 2; no paragraph has id 3.
Document == [given |-> TRUE,
             paragraphs |-> <<(<<"a", " ", "b", " ", "c">>), (<<"a", " ", "b", " ", "c">>)>>]

AbsentParagraph == 3

\* ProposedEdit(type="replace", anchor=...)
Replace(anchor) == [type |-> "replace", anchor |-> anchor]

At(paragraph_id, quoted_text) == Anchor(paragraph_id, NoSentence, quoted_text)

\* What the agents can hand in: <<agent_id, anchors, proposed_edit>>.
Candidates ==
    << <<"clarity", <<At(1, Text_ab)>>, NoEdit>>,
       <<"clarity", <<At(1, Text_B)>>, Replace(At(1, Text_B))>>,
       <<"clarity", <<At(1, Text_c)>>, Replace(At(1, Text_c))>>,
       <<"clarity", <<At(2, Text_ab)>>, NoEdit>>,
       <<"clarity", <<At(1, Text_c), At(AbsentParagraph, Text_c)>>, NoEdit>>,
       <<"clarity", <<At(2, Text_c)>>, Replace(At(AbsentParagraph, Text_x))>>,
       <<"adversary", <<At(1, Text_B)>>, NoEdit>>,
       <<"adversary", <<At(1, Text_c)>>, Replace(At(1, Text_x))>>,
       <<"adversary", <<At(AbsentParagraph, Text_ab)>>, NoEdit>>,
       <<"domain", <<At(1, Text_ab)>>, NoEdit>>,
       <<"domain", <<At(1, Text_c)>>, Replace(At(1, Text_x))>>,
       <<"rigor_find", <<At(1, Text_ab)>>, NoEdit>>,
       <<"rigor_find", <<At(AbsentParagraph, Text_c)>>, NoEdit>>,
       <<"rigor_rewrite", <<At(1, Text_B)>>, Replace(At(1, Text_ab))>>,
       <<"rigor_rewrite", <<At(1, Text_c)>>, Replace(At(1, Text_x))>>,
       <<"clarity", <<At(2, Text_c), At(1, Text_ab)>>, NoEdit>> >>

Pool == {Finding(i, Candidates[i][1], Candidates[i][2], Candidates[i][3]) :
            i \in 1..Len(Candidates)}

\* A finding is appended to the list that will be given to the Assembler.
arrive(f) ==
    /\ review_outputs = <<>>
    /\ Len(input_findings) < MaxInput
    /\ \A i \in 1..Len(input_findings) : input_findings[i].id # f.id
    /\ input_findings' = Append(input_findings, f)
    /\ UNCHANGED <<input_doc, submitted, review_outputs, locks, pairs, substrate, inputs, pc, event_queue,
                   latches, results, all_findings, all_metrics, fanout, call_args,
                   assembler_calls, log_errors, stream>>

\* assembler.assemble(findings, doc=doc): the output is recorded, and the
\* caller's Finding objects are left as the call changed them.
run_assemble ==
    /\ Len(review_outputs) < MaxRuns
    /\ submitted' = Append(submitted, input_findings)
    /\ review_outputs' = Append(review_outputs, assemble(input_findings, <<>>, input_doc))
    /\ input_findings' = AfterAssemble(input_findings, input_doc)
    /\ UNCHANGED <<input_doc, locks, pairs, substrate, inputs, pc, event_queue, latches, results,
                   all_findings, all_metrics, fanout, call_args, assembler_calls,
                   log_errors, stream>>

InitAssembler ==
    /\ Start([clarity_chunks : {0}, rigor_chunks : {0}], {DefaultMaxConcurrentAgents},
             {Document, NoDoc})
    /\ \A k \in DOMAIN settings : ~settings[k]
    /\ ~config.enable_domain

NextAssembler ==
    \/ \E f \in Pool : arrive(f)
    \/ run_assemble

SpecAssembler == InitAssembler /\ [][NextAssembler]_vars

\* ------------------------------------------------------------------ fan-out runs
\* Runs of one fan-out agent alone (Briefing, Domain and Adversary disabled), over
\* documents of up to FanChunks chunks whose calls return FanCounts findings.
FanCounts == {0, 2, 3}

InitFanOut ==
    /\ Start([clarity_chunks : 0..FanChunks, rigor_chunks : 0..FanChunks],
             {DefaultMaxConcurrentAgents}, {NoDoc})
    /\ ~settings.enable_briefing /\ ~settings.enable_domain /\ ~settings.enable_adversary
    /\ settings.enable_clarity # settings.enable_rigor
    /\ ~config.enable_domain
    /\ settings.enable_clarity => doc.rigor_chunks = 0
    /\ settings.enable_rigor => doc.clarity_chunks = 0

NextFanOut ==
    \/ \E t \in AgentTasks : skip_agent(t)
    \/ run_clarity
    \/ clarity_chunk
    \/ run_rigor_find
    \/ rigor_find_chunk
    \/ \E a \in FanOut : \E i \in DOMAIN chunk_tasks[a], n \in FanCounts :
          process_with_index_returns(a, i, n)
    \/ \E a \in FanOut : \E i \in DOMAIN chunk_tasks[a] : process_with_index_raises(a, i)
    \/ run_rigor_rewrite
    \/ \E ok \in SUBSET Batches(call_args["rigor_rewrite"].rigor_findings) :
          rigor_rewrite_returns(ok)
    \/ rigor_rewrite_raises
    \/ run_assembler_and_complete

SpecFanOut == InitFanOut /\ [][NextFanOut]_vars

\* ------------------------------------------------------------------ properties
\* The positions of the events of one type on the feed.
Events(type) == {i \in 1..Len(event_queue) : event_queue[i].type = type}

FindingsOf(fs, agent_id) == SelectSeq(fs, LAMBDA f : f.agent_id = agent_id)

Ids(fs) == {fs[i].id : i \in 1..Len(fs)}

\* The ids of the findings announced on the feed.
DiscoveredIds == {event_queue[i].finding.id : i \in Events("finding_discovered")}

\* The event the finalization task owes the feed for the call it made.
RunCompleted(call) == ReviewCompletedEvent(assemble(call.findings, call.metrics, NoDoc).findings)

\* An agent other than Briefing raised, as a whole or in one of its chunks.
NonBriefingFailure ==
    \/ log_errors \ {"briefing"} # {}
    \/ \E a \in FanOut : \E i \in DOMAIN chunk_tasks[a] : chunk_tasks[a][i].error

AllEnded == \A t \in Tasks : pc[t] \in Ended

\* C1: if the Briefing agent's run fails the run is aborted: from then on the
\* Assembler is not invoked, no run-completed event is emitted, no agent starts
\* or produces findings, and the one non-recoverable error event stays the last
\* event of the stream.
C1_BriefingFailureAborts ==
    [][pc'["briefing"] = "failed" =>
          /\ assembler_calls' = assembler_calls
          /\ Events("review_completed")' = {}
          /\ Cardinality(Events("error")') = 1
          /\ event_queue'[Len(event_queue')] = ErrorEvent("Briefing failed", FALSE)]_vars

\* C2: when an agent other than Briefing has raised and the finalization task
\* has ended, the run-completed event is on the feed, and it carries the list
\* assembled from every finding the successful agents and chunks produced.
C2_NonBriefingFailureStillCompletes ==
    (pc["complete"] \in Ended /\ NonBriefingFailure /\ "briefing" \notin log_errors) =>
        /\ Len(assembler_calls) = 1
        /\ Ids(assembler_calls[1].findings) = DiscoveredIds
        /\ \E i \in Events("review_completed") :
              event_queue[i] = RunCompleted(assembler_calls[1])

\* C3: the run-completed event is the last event of every run: when every task
\* of the run has ended it is on the feed, and only the end-of-stream signal
\* ever follows it.
C3_RunCompletedIsLast ==
    /\ \A i \in Events("review_completed") :
          \A j \in (i + 1)..Len(event_queue) : event_queue[j] = EndOfStream
    /\ AllEnded => Events("review_completed") # {}

\* C4: in a run that is not aborted the Assembler is invoked exactly once and
\* only after the Clarity, RigorRewrite and Adversary tasks have ended; what it
\* returned is put as the run-completed event, and the end-of-stream signal
\* follows it.
C4_AssemblerOnceThenCompleted ==
    /\ Len(assembler_calls) <= 1
    /\ assembler_calls # <<>> => \A t \in AssemblerWaitsFor : pc[t] \in Ended
    /\ (pc["complete"] \in Ended /\ pc["briefing"] # "failed") =>
          /\ Len(assembler_calls) = 1
          /\ \E i \in Events("review_completed") :
                /\ event_queue[i] = RunCompleted(assembler_calls[1])
                /\ i < Len(event_queue)
                /\ event_queue[i + 1] = EndOfStream

\* C5: once the Assembler has been invoked no task appends a finding or a
\* metrics record to the accumulators.
C5_NoAppendAfterAssembler ==
    [][assembler_calls # <<>> =>
          /\ Len(all_findings') = Len(all_findings)
          /\ all_metrics' = all_metrics]_vars

\* The agent began its work: its stage-started event is on the feed or its
\* completion calls were made.
Started(a) ==
    \/ call_args[a].called
    \/ \E i \in Events("agent_started") : event_queue[i].agent_id = a

Latch(t) ==
    CASE t = "briefing" -> briefing_ready
      [] t = "domain" -> domain_ready
      [] t = "rigor_find" -> rigor_find_ready

\* What a suspended task waits for.
CanResume(t) ==
    CASE t \in {"clarity", "rigor_find"} -> briefing_ready
      [] t = "rigor_rewrite" -> rigor_find_ready
      [] t = "adversary" -> AdversaryReady
      [] t = "complete" -> \A u \in AssemblerWaitsFor : pc[u] \in Ended
      [] OTHER -> FALSE

\* Every completion call made so far has returned or failed, and its result
\* was taken up.
NoCallOutstanding == \A t \in Tasks : pc[t] \in {"waiting", "done", "failed"}

\* C7: for every combination of toggles a disabled agent opens its latch in its
\* first step; when no completion call is outstanding and the run has not ended,
\* some waiting task can go on (nothing blocks forever); and when every task
\* has ended the end-of-stream signal is on the feed.
C7_RunReachesEndOfStream ==
    /\ \A t \in {"briefing", "domain", "rigor_find"} :
          (~Launched(t) /\ pc[t] # "created") => Latch(t)
    /\ (NoCallOutstanding /\ ~AllEnded) =>
          \E t \in Tasks : pc[t] = "waiting" /\ CanResume(t)
    /\ AllEnded => EndOfStream \in Range(event_queue)

DomainDisabled == ~settings.enable_domain \/ ~config.enable_domain

\* C8: a disabled upstream stage looks to its dependents like one that ran and
\* produced nothing.  Domain disabled (by settings or by the request): the
\* pipeline is never invoked and Adversary gets the empty evidence pack, which is
\* what a failed Domain run leaves.  RigorFind disabled: Adversary gets the empty
\* list and RigorRewrite is not called, as with any empty list of rigor
\* findings.  Briefing disabled: its dependents
\* get None, which is what a Briefing run that produced nothing leaves.
C8_DisabledLooksEmpty ==
    /\ DomainDisabled =>
          /\ ~Started("domain")
          /\ call_args["adversary"].called =>
                call_args["adversary"].evidence = EmptyEvidence
    /\ "domain" \in log_errors => evidence_result = EmptyEvidence
    /\ rigor_findings_result = <<>> => ~Started("rigor_rewrite")
    /\ ~settings.enable_rigor =>
          /\ ~Started("rigor_find") /\ ~Started("rigor_rewrite")
          /\ call_args["adversary"].called =>
                call_args["adversary"].rigor_findings = <<>>
    /\ ~settings.enable_briefing =>
          /\ ~Started("briefing")
          /\ \A a \in {"clarity", "rigor_find", "adversary"} :
                call_args[a].called => call_args[a].briefing = NoBriefing
    /\ "briefing" \in log_errors => briefing_result = NoBriefing

\* Adversary was called with Briefing and RigorFind disabled and Domain disabled
\* by the request alone.
C8_Witness ==
    /\ settings.enable_domain /\ ~config.enable_domain
    /\ ~settings.enable_rigor /\ ~settings.enable_briefing
    /\ call_args["adversary"].called

\* C9: whenever Clarity, Domain, RigorRewrite or Adversary has failed as a whole
\* an error event marked recoverable is on the feed.
C9_WholeAgentFailureIsReported ==
    \A a \in {"clarity", "domain", "rigor_rewrite", "adversary"} :
        a \in log_errors =>
            \E i \in Events("error") : event_queue[i].recoverable

\* The chunk-completed events of chunk i of agent a.
ChunkCompleted(a, i) ==
    {k \in Events("chunk_completed") :
        event_queue[k].agent_id = a /\ event_queue[k].chunk_index = i}

\* The findings the chunks of agent a returned, over all its chunks.
RECURSIVE ChunkTotal(_, _)
ChunkTotal(a, left) ==
    IF left = {} THEN 0
    ELSE LET i == CHOOSE x \in left : TRUE
         IN Len(chunk_tasks[a][i].findings) + ChunkTotal(a, left \ {i})

ChunkIds(a) == UNION {Ids(chunk_tasks[a][i].findings) : i \in DOMAIN chunk_tasks[a]}

\* What agent a contributed to the list the Assembler was invoked with.
Contribution(a) == FindingsOf(assembler_calls[1].findings, a)

\* C10: in a fan-out agent a failed chunk neither cancels nor discards its
\* siblings: once the agent has ended every dispatched chunk has exactly one
\* chunk-completed event, marked failed exactly for the chunks whose call
\* raised and carrying the chunk's number of findings otherwise, and what the
\* agent contributes to the Assembler is exactly the findings of its successful
\* chunks.
C10_ChunkFailureIsContained ==
    \A a \in FanOut :
        /\ (call_args[a].called /\ pc[a] \in Ended) =>
              \A i \in DOMAIN chunk_tasks[a] :
                  /\ Cardinality(ChunkCompleted(a, i)) = 1
                  /\ \A k \in ChunkCompleted(a, i) :
                        /\ event_queue[k].failed = chunk_tasks[a][i].error
                        /\ event_queue[k].findings_count = Len(chunk_tasks[a][i].findings)
        /\ assembler_calls # <<>> =>
              /\ Ids(Contribution(a)) = ChunkIds(a)
              /\ Len(Contribution(a)) = ChunkTotal(a, DOMAIN chunk_tasks[a])

\* Clarity dispatched chunks 0, 1 and 2; chunk 1 failed first, chunks 0 and 2
\* then returned 2 and 3 findings; 5 findings went to the Assembler and the one
\* failed chunk event is that of index 1.
C10_Witness ==
    /\ DOMAIN chunk_tasks["clarity"] = {0, 1, 2}
    /\ chunk_tasks["clarity"][1].error
    /\ Len(chunk_tasks["clarity"][0].findings) = 2
    /\ Len(chunk_tasks["clarity"][2].findings) = 3
    /\ assembler_calls # <<>>
    /\ Len(Contribution("clarity")) = 5
    /\ {event_queue[k].chunk_index :
           k \in {j \in Events("chunk_completed") : event_queue[j].failed}} = {1}
    /\ \A k \in ChunkCompleted("clarity", 1) :
          \A j \in ChunkCompleted("clarity", 0) \cup ChunkCompleted("clarity", 2) : k < j

\* A completion call of a chunk task is outstanding.
ChunkCallOutstanding ==
    \E a \in FanOut : \E i \in DOMAIN chunk_tasks[a] : chunk_tasks[a][i].state = "calling"

\* C11: when the consumer has cancelled the run and the cleanup is over (the run
\* is stopped), every agent task and the final assembly task has ended and no
\* fan-out chunk task is still making its completion call.
C11_CancelStopsEveryTask ==
    consumer = "stopped" =>
        /\ \A t \in Tasks : pc[t] \in Ended
        /\ ~ChunkCallOutstanding

\* An item is an event (not the None that ends the stream).
IsEvent(e) == e # EndOfStream

\* C12: what the consumer has yielded is, event for event and in the same
\* order, what was put on the queue first: nothing is skipped, duplicated or
\* reordered, and once the consumer has read the queue empty it has yielded
\* every event put so far.
C12_DeliveredInPutOrder ==
    /\ taken <= Len(event_queue)
    /\ received = SelectSeq(SubSeq(event_queue, 1, taken), IsEvent)
    /\ (consumer = "reading" /\ Pending = <<>>) =>
          received = SelectSeq(event_queue, IsEvent)

\* The consumer has yielded events of Briefing, Domain, Clarity and the
\* Assembler, and the queue is empty.
C12_Witness ==
    /\ consumer = "reading"
    /\ Pending = <<>>
    /\ {"briefing", "domain", "clarity", "assembler"} \subseteq
          {received[i].agent_id : i \in {j \in 1..Len(received) : received[j].type = "agent_started"}}
    /\ \E i \in 1..Len(received) : received[i].type = "finding_discovered"

\* The callers holding a slot: making their call, or handed a slot and not yet
\* resumed.
InFlight == {c \in Callers : calls[c] \in {"in_flight", "sleeping"}}

Holding == {c \in Callers : calls[c] \in {"in_flight", "sleeping", "granted"}}

Waiting == {c \in Callers : calls[c] = "waiting"}

\* C13: the calls in flight never exceed the configured cap; a caller beyond
\* the cap waits; every way a call ends gives its slot back, so the slots held
\* plus the slots free are always the cap, and callers only wait while every
\* slot is held by a call that has yet to end.
C13_CallsWithinCap ==
    /\ Cardinality(InFlight) <= max_concurrent_agents
    /\ ~_semaphore.created => Holding = {} /\ Waiting = {}
    /\ _semaphore.created =>
          /\ Cardinality(Holding) + _semaphore.value = max_concurrent_agents
          /\ Range(_semaphore.waiters) = Waiting
          /\ Len(_semaphore.waiters) = Cardinality(Waiting)
          /\ Waiting # {} => _semaphore.value = 0

\* The cap is reached with a caller waiting for a slot, after an earlier call
\* timed out.
C13_Witness ==
    /\ Cardinality(InFlight) = max_concurrent_agents
    /\ Waiting # {}
    /\ \E c \in Callers : calls[c] = "timeout"

\* ------------------------------------------------------------------ properties of the Assembler
\* The runs of the Assembler that were given a document.
RunsWithDoc == IF input_doc.given THEN DOMAIN review_outputs ELSE {}

AnchorsExist(f, d) ==
    \A i \in 1..Len(f.anchors) : f.anchors[i].paragraph_id \in DOMAIN d.paragraphs

\* C14: whatever list and document the Assembler is given, no finding of its
\* output has an anchor whose paragraph id is absent from the document.
C14_OutputAnchorsExist ==
    \A r \in RunsWithDoc :
        \A f \in Range(review_outputs[r].findings) : AnchorsExist(f, input_doc)

\* A run over a list in which one finding has all its anchors in the document
\* and another has one anchor in it and one outside it.
C14_Witness ==
    \E r \in RunsWithDoc :
        /\ review_outputs[r].findings # <<>>
        /\ \E f \in Range(submitted[r]) :
              /\ ~AnchorsExist(f, input_doc)
              /\ f.anchors[1].paragraph_id \in DOMAIN input_doc.paragraphs

\* The paragraph ids of the reviewed document of an orchestrated run: chunk i
\* is paragraph i.
ParagraphIds(d) == (0..(d.clarity_chunks - 1)) \cup (0..(d.rigor_chunks - 1))

\* C15: the list the run-completed event of an orchestrated run carries, which
\* is the output of the Orchestrator's Assembler invocation, has no finding
\* anchored to a paragraph id that the reviewed document lacks.
C15_CompletedAnchorsExist ==
    \A i \in DOMAIN assembler_calls :
        \A f \in Range(RunCompleted(assembler_calls[i]).findings) :
            \A k \in 1..Len(f.anchors) : f.anchors[k].paragraph_id \in ParagraphIds(doc)

\* The findings of a list that overlap f somewhere and can win against it: a
\* Methodology finding is compared with nothing, and Writing loses to
\* Argumentation.
Rivals(f, findings, d) ==
    {g \in Range(findings) :
        /\ g.id # f.id
        /\ g.track = "C"
        /\ d.given => AnchorsExist(g, d)
        /\ \E k \in 1..Len(f.anchors) : _findings_overlap(f, g, f.anchors[k].paragraph_id)}

\* The findings of a list that have the id of f.
WithId(findings, f) == SelectSeq(findings, LAMBDA g : g.id = f.id)

PassesValidation(f) ==
    input_doc.given => AnchorsExist(f, input_doc) /\ ~Ungrounded(f, input_doc)

Methodology(findings) == SelectSeq(findings, LAMBDA f : f.track = "B")

Overlapping(f, g) ==
    \E k \in 1..Len(f.anchors) : _findings_overlap(f, g, f.anchors[k].paragraph_id)

\* The pairs <<c, a>> of a list that dedup can see: an Argumentation finding and
\* a Writing finding that overlap and both pass validation.
ArgumentationOverWriting(findings) ==
    {p \in Range(findings) \X Range(findings) :
        /\ p[1].track = "C" /\ p[2].track = "A"
        /\ PassesValidation(p[1]) /\ PassesValidation(p[2])
        /\ Overlapping(p[1], p[2])}

\* C18: of an overlapping Argumentation finding and Writing finding the
\* Writing one is not in the output, the Argumentation one is (unless another
\* Argumentation finding overlaps it), and the Argumentation one, when it
\* survives, carries the tags of both, in whichever order they arrived.
C18_ArgumentationBeatsWriting ==
    \A r \in DOMAIN review_outputs :
        \A p \in ArgumentationOverWriting(submitted[r]) :
            LET c == WithId(review_outputs[r].findings, p[1])
                a == WithId(review_outputs[r].findings, p[2])
            IN /\ a = <<>>
               /\ Rivals(p[1], submitted[r], input_doc) = {} => Len(c) = 1
               /\ \A g \in Range(c) :
                     Range(p[1].dimensions) \cup Range(p[2].dimensions) \subseteq Range(g.dimensions)

\* C19: of two overlapping findings of agents of different dedup priority, the
\* one of the lower-priority agent (the greater priority number) is not in the
\* output: clarity gives way to rigor, rigor to adversary.
C19_LowerPriorityDropped ==
    \A r \in DOMAIN review_outputs :
        \A h, l \in Range(submitted[r]) :
            (/\ PassesValidation(h) /\ PassesValidation(l)
             /\ Overlapping(h, l)
             /\ AGENT_PRIORITY(h.agent_id) < AGENT_PRIORITY(l.agent_id))
                => WithId(review_outputs[r].findings, l) = <<>>

\* The arrival orders of a list.
Orders(findings) ==
    LET n == Len(findings)
        perms == {p \in [1..n -> 1..n] : \A i, j \in 1..n : p[i] = p[j] => i = j}
    IN {[i \in 1..n |-> findings[p[i]]] : p \in perms}

\* C20: the output depends on which findings came in, not on the order they
\* came in or on how often the Assembler is run: every arrival order of a list
\* leaves the same findings, with the same content, in the output, and a second
\* run on the list repeats the output of the first.
C20_OutputIsAFunctionOfTheInput ==
    /\ \A r \in DOMAIN review_outputs :
          \A other \in Orders(submitted[r]) :
              Range(assemble(other, <<>>, input_doc).findings)
                  = Range(review_outputs[r].findings)
    /\ \A r, q \in DOMAIN review_outputs :
          review_outputs[r].findings = review_outputs[q].findings

\* Where the finding with the id of f stands in a list.
PositionIn(findings, f) == CHOOSE i \in 1..Len(findings) : findings[i].id = f.id

\* C21: the output is in presentation order of the producing agent, and two
\* findings of the same rank stand in the order they had in the input.
C21_SortedByPresentationRank ==
    \A r \in DOMAIN review_outputs :
        LET out == review_outputs[r].findings
        IN \A i, j \in 1..Len(out) :
              i < j =>
                 /\ PRESENTATION_ORDER(out[i].agent_id) <= PRESENTATION_ORDER(out[j].agent_id)
                 /\ PRESENTATION_ORDER(out[i].agent_id) = PRESENTATION_ORDER(out[j].agent_id)
                       => PositionIn(submitted[r], out[i]) < PositionIn(submitted[r], out[j])

\* An input that arrived out of rank order, of which three findings survive, two
\* of them of the same rank.
C21_Witness ==
    \E r \in DOMAIN review_outputs :
        LET out == review_outputs[r].findings
            sub == submitted[r]
        IN /\ Len(out) = 3
           /\ \E i, j \in 1..Len(out) :
                 i < j /\ PRESENTATION_ORDER(out[i].agent_id) = PRESENTATION_ORDER(out[j].agent_id)
           /\ \E i, j \in 1..Len(sub) :
                 i < j /\ PRESENTATION_ORDER(sub[i].agent_id) > PRESENTATION_ORDER(sub[j].agent_id)

\* The findings of a run that overlap resolution discarded: they passed
\* validation, are not Methodology findings, and are not in the output.
Discarded(r) ==
    {f \in Range(submitted[r]) :
        /\ PassesValidation(f)
        /\ f.track # "B"
        /\ WithId(review_outputs[r].findings, f) = <<>>}

\* C22: every tag of a finding that overlap resolution discarded is carried by
\* a finding of the output that overlaps it.
C22_NoTagLost ==
    \A r \in DOMAIN review_outputs :
        \A f \in Discarded(r) :
            \E g \in Range(review_outputs[r].findings) :
                /\ Overlapping(f, g)
                /\ Range(f.dimensions) \subseteq Range(g.dimensions)

\* RigorRewrite returned rewritten findings in this run.
RewriteSucceeded ==
    \E i \in Events("agent_completed") :
        event_queue[i].agent_id = "rigor_rewrite" /\ event_queue[i].findings_count > 0

\* C23: when RigorRewrite succeeded, the rigor findings the Assembler is given
\* are the rewritten ones: they are of agent rigor_rewrite and carry an edit.
C23_AssemblerGetsRewrittenFindings ==
    RewriteSucceeded =>
        \A i \in DOMAIN assembler_calls :
            \A f \in Range(assembler_calls[i].findings) :
                f.track = "B" => f.agent_id = "rigor_rewrite" /\ f.proposed_edit # NoEdit

\* The tasks that start with a wait on latches.
Dependents == {"clarity", "rigor_find", "rigor_rewrite", "adversary"}

\* C24: a latch that is open stays open in every step of the run, and a
\* dependent whose latches are all open when it reaches its wait goes on in the
\* same step instead of suspending.
C24_LatchesAreOneShot ==
    [][/\ \A t \in {"briefing", "domain", "rigor_find"} : Latch(t) => Latch(t)'
       /\ \A t \in Dependents :
             (pc[t] = "created" /\ CanResume(t) /\ pc'[t] # "created") => pc'[t] # "waiting"]_vars

\* Briefing is disabled, so its latch was opened before Clarity first ran, and
\* Clarity is past its wait with the latch still open.
C24_Witness ==
    /\ ~settings.enable_briefing
    /\ settings.enable_clarity
    /\ pc["clarity"] = "streaming"
    /\ briefing_ready

\* The dependency edges of the graph: the agents whose latch a task needs.
Edges(t) ==
    CASE t \in {"clarity", "rigor_find"} -> {"briefing"}
      [] t = "rigor_rewrite" -> {"rigor_find"}
      [] t = "adversary" -> {"briefing", "rigor_find", "domain"}
      [] OTHER -> {}

\* The position of an agent's event of one type on the feed, 0 if there is none.
EventOf(type, agent_id) ==
    LET at == {i \in Events(type) : event_queue[i].agent_id = agent_id}
    IN IF at = {} THEN 0 ELSE CHOOSE i \in at : \A j \in at : i <= j

\* The feed shows that two agents were in flight at the same time: each
\* started before the other completed.
InFlightTogether(x, y) ==
    /\ EventOf("agent_started", x) > 0
    /\ EventOf("agent_started", y) > 0
    /\ EventOf("agent_completed", x) \in {0} \cup (EventOf("agent_started", y)..Len(event_queue))
    /\ EventOf("agent_completed", y) \in {0} \cup (EventOf("agent_started", x)..Len(event_queue))

\* C25: no task suspends at its wait unless a latch of one of its own
\* dependency edges is closed, a suspended task goes on only when all of them
\* are open, and Briefing and Domain, which have no edge, never wait.
C25_WaitsOnlyOnOwnEdges ==
    [][/\ \A t \in AgentTasks :
             (pc[t] = "created" /\ pc'[t] = "waiting") => \E u \in Edges(t) : ~Latch(u)
       /\ \A t \in AgentTasks :
             (pc[t] = "waiting" /\ pc'[t] # "waiting") => \A u \in Edges(t) : Latch(u)]_vars

\* One run in which Briefing and Domain were in flight together, then Clarity
\* and RigorFind, and in which RigorRewrite and Adversary now both have their
\* call outstanding.
C25_Witness ==
    /\ InFlightTogether("briefing", "domain")
    /\ InFlightTogether("clarity", "rigor_find")
    /\ pc["rigor_rewrite"] = "calling"
    /\ pc["adversary"] = "calling"

\* The positions of the chunk-completed events of agent a on the feed.
ChunkDone(a) == {p \in Events("chunk_completed") : event_queue[p].agent_id = a}

\* The positions of the finding-discovered events of chunk i of agent a.
ChunkDiscovered(a, i) ==
    {p \in Events("finding_discovered") :
        event_queue[p].finding.agent_id = a /\ event_queue[p].finding.id[2] = i}

\* C26: the chunk-completed events of a fan-out agent stand on the feed in the
\* order the chunks finished (the k-th is that of the chunk that finished
\* k-th), and the findings of a chunk stand before its own chunk-completed
\* event and after that of every chunk that finished earlier.
C26_ChunkEventsInCompletionOrder ==
    \A a \in FanOut :
        /\ \A p \in ChunkDone(a) :
              chunk_tasks[a][event_queue[p].chunk_index].finished
                  = Cardinality({q \in ChunkDone(a) : q <= p})
        /\ \A i \in DOMAIN chunk_tasks[a] :
              \A p \in ChunkDiscovered(a, i) :
                  /\ \E q \in ChunkCompleted(a, i) : p < q
                  /\ \A q \in ChunkDone(a) :
                        q < p <=> chunk_tasks[a][event_queue[q].chunk_index].finished
                                     < chunk_tasks[a][i].finished

\* Chunk 1 finished before chunk 0 and its findings and chunk-completed event
\* are on the feed, first of the agent's chunk events, while the call of
\* chunk 0 is still outstanding.
C26_Witness ==
    /\ DOMAIN chunk_tasks["clarity"] = {0, 1}
    /\ chunk_tasks["clarity"][0].state = "calling"
    /\ ChunkCompleted("clarity", 1) # {}
    /\ ChunkDiscovered("clarity", 1) # {}

\* ------------------------------------------------------------------ properties of the retry loop
\* The exception types after which the decorator is said to retry.
RetryableErrors == {"APIError", "RateLimitError", "APIConnectionError"}

\* C27: a call makes at most three attempts; it goes on to another attempt only
\* after an API, rate-limit or connection error and only while attempts are
\* left; a call whose attempt raised anything else, or whose third attempt
\* raised, has ended with that failure, as has a call that timed out; and a
\* call that ended in failure did so for one of these reasons.
C27_AtMostThreeAttempts ==
    \A c \in Callers :
        /\ retry_state[c].attempt_number <= 3
        /\ calls[c] \in {"in_flight", "sleeping"} /\ retry_state[c].exception # "none" =>
              /\ retry_state[c].exception \in RetryableErrors
              /\ retry_state[c].attempt_number
                    < (IF calls[c] = "sleeping" THEN 3 ELSE 4)
              /\ calls[c] = "in_flight" => retry_state[c].attempt_number >= 2
        /\ calls[c] = "error" =>
              \/ retry_state[c].exception = "Exception"
              \/ retry_state[c].exception \in RetryableErrors /\ retry_state[c].attempt_number = 3
        /\ calls[c] \in {"idle", "waiting", "granted"} => retry_state[c] = NotCalled

\* Two calls ended in failure, one after its third attempt raised a rate-limit
\* error and one whose first attempt raised something else, and a third timed
\* out while waiting for its second attempt.
C27_Witness ==
    /\ \E c \in Callers :
          calls[c] = "error" /\ retry_state[c] = [attempt_number |-> 3, exception |-> "RateLimitError"]
    /\ \E c \in Callers :
          calls[c] = "error" /\ retry_state[c] = [attempt_number |-> 1, exception |-> "Exception"]
    /\ \E c \in Callers :
          calls[c] = "timeout" /\ retry_state[c].attempt_number = 1
                               /\ retry_state[c].exception = "APIConnectionError"

\* ------------------------------------------------------------------ properties of the accumulator locks
\* The tasks between taking lock op's lock and giving it back.
InsideBlock(op) == {t \in LockUsers : adders[t].op = op /\ adders[t].pc \in {"append", "release"}}

Suspended(t) == running # t

\* C28: each of the two locks is held only by the running task and only while
\* that task is in the block that appends; no task is suspended while it holds
\* either lock; and no two tasks are in the same block at once.
C28_LocksHeldOnlyWhileAppending ==
    \A op \in {"add_finding", "add_metrics"} :
        /\ LockOf(op).locked <=> InsideBlock(op) # {}
        /\ LockOf(op).locked => InsideBlock(op) = {LockOf(op).holder}
        /\ \A t \in InsideBlock(op) : ~Suspended(t)
        /\ Cardinality(InsideBlock(op)) <= 1

\* Clarity is in the block of add_finding, holding the lock, after adversary
\* added a finding and was suspended, while rigor_find added metrics.
C28_Witness ==
    /\ findings_lock.locked /\ findings_lock.holder = "clarity"
    /\ adders["clarity"].pc = "append"
    /\ \E i \in DOMAIN all_findings : all_findings[i].agent_id = "adversary"
    /\ adders["adversary"].added = 1 /\ Suspended("adversary")
    /\ all_metrics # <<>>

\* ------------------------------------------------------------------ properties of _detect_overlap
\* The quoted text of an anchor, lower-cased and trimmed, and its words.
Trimmed(anchor) == strip(lower(anchor.quoted_text))

WordsOf(anchor) == split(Trimmed(anchor))

SharedWords(x, y) == Range(WordsOf(x)) \cap Range(WordsOf(y))

SmallerWordSet(x, y) == Min(Cardinality(Range(WordsOf(x))), Cardinality(Range(WordsOf(y))))

\* The two texts share a run of two or more consecutive words.
SharedRun(x, y) ==
    \E n \in 2..Min(Len(WordsOf(x)), Len(WordsOf(y))) :
        \E i \in 1..(Len(WordsOf(x)) - n + 1), j \in 1..(Len(WordsOf(y)) - n + 1) :
            SubSeq(WordsOf(x), i, i + n - 1) = SubSeq(WordsOf(y), j, j + n - 1)

Contained(x, y) == IsSubstring(Trimmed(x), Trimmed(y)) \/ IsSubstring(Trimmed(y), Trimmed(x))

\* The text rules as the description lists them.
TextsOverlap(x, y) ==
    \/ Trimmed(x) = Trimmed(y)
    \/ Contained(x, y)
    \/ 2 * Cardinality(SharedWords(x, y)) > SmallerWordSet(x, y)
    \/ SharedRun(x, y)

SameParagraph == anchor_pair[1].paragraph_id = anchor_pair[2].paragraph_id

CarriesSentenceId(anchor) == anchor.sentence_id # NoSentence /\ anchor.sentence_id # ""

\* C29: for a pair of anchors of one paragraph that both carry a sentence id,
\* the answer is whether the ids are equal, whatever the quoted texts; the
\* texts decide only when at least one of the two carries none.
C29_SentenceIdsDecide ==
    overlap.called /\ SameParagraph =>
        IF CarriesSentenceId(anchor_pair[1]) /\ CarriesSentenceId(anchor_pair[2])
        THEN overlap.result = (anchor_pair[1].sentence_id = anchor_pair[2].sentence_id)
        ELSE overlap.result = TextsOverlap(anchor_pair[1], anchor_pair[2])

\* Two anchors of one paragraph with different sentence ids and the same
\* quoted text: no overlap.
C29_Witness ==
    /\ overlap.called /\ SameParagraph /\ ~overlap.result
    /\ CarriesSentenceId(anchor_pair[1]) /\ CarriesSentenceId(anchor_pair[2])
    /\ anchor_pair[1].sentence_id # anchor_pair[2].sentence_id
    /\ anchor_pair[1].quoted_text = anchor_pair[2].quoted_text

\* C30: two anchors without sentence ids overlap exactly when they are in the
\* same paragraph and their lower-cased, trimmed texts are equal, or one
\* contains the other, or they share strictly more than half of the smaller
\* word set, or they share a run of two or more words; one shared word that is
\* no more than half of the smaller set does not make an overlap by itself.
C30_TextOverlapRules ==
    overlap.called /\ anchor_pair[1].sentence_id = NoSentence
                   /\ anchor_pair[2].sentence_id = NoSentence =>
        /\ overlap.result = (SameParagraph /\ TextsOverlap(anchor_pair[1], anchor_pair[2]))
        /\ ( /\ Cardinality(SharedWords(anchor_pair[1], anchor_pair[2])) = 1
             /\ 2 <= SmallerWordSet(anchor_pair[1], anchor_pair[2])
             /\ ~Contained(anchor_pair[1], anchor_pair[2])
             /\ ~SharedRun(anchor_pair[1], anchor_pair[2]) ) => ~overlap.result

\* "a a b" and "ab a a" in one paragraph: neither contains the other, the one
\* shared word is half of the smaller word set, and the shared run "a a" alone
\* makes them overlap.
C30_Witness ==
    /\ overlap.called /\ overlap.result /\ SameParagraph
    /\ anchor_pair[1].sentence_id = NoSentence /\ anchor_pair[2].sentence_id = NoSentence
    /\ ~Contained(anchor_pair[1], anchor_pair[2])
    /\ 2 * Cardinality(SharedWords(anchor_pair[1], anchor_pair[2]))
          <= SmallerWordSet(anchor_pair[1], anchor_pair[2])
    /\ SharedRun(anchor_pair[1], anchor_pair[2])

\* ------------------------------------------------------------------ properties of assemble as a function
\* The caller's list as it is after run r of the Assembler returned.
ListAfter(r) == IF r < Len(submitted) THEN submitted[r + 1] ELSE input_findings

\* C31: after assemble returns, the list it was given has the same findings in
\* the same order, each with the proposed-edit kind and the dimension tags it
\* had before the call.
C31_InputLeftAsGiven ==
    \A r \in DOMAIN review_outputs :
        /\ Len(ListAfter(r)) = Len(submitted[r])
        /\ \A i \in 1..Len(submitted[r]) :
              /\ ListAfter(r)[i].id = submitted[r][i].id
              /\ ListAfter(r)[i].proposed_edit.type = submitted[r][i].proposed_edit.type
              /\ ListAfter(r)[i].dimensions = submitted[r][i].dimensions

\* ------------------------------------------------------------------ properties of the feed and the accumulator
\* The findings announced on the feed, in the order of their events.
Announced ==
    LET events == SelectSeq(event_queue, LAMBDA e : e.type = "finding_discovered")
    IN [i \in 1..Len(events) |-> events[i].finding]

\* The finding-discovered events before position j that announce a finding of
\* chunk `chunk` of agent a (chunk -1: an agent that does not fan out).
AnnouncedBefore(a, chunk, j) ==
    {i \in Events("finding_discovered") :
        /\ i < j
        /\ event_queue[i].finding.id[1] = a
        /\ event_queue[i].finding.id[2] = chunk}

\* Event j counts the findings of chunk `chunk` of agent a.
Counts(j, a, chunk) ==
    LET e == event_queue[j] IN
    IF a \in FanOut
    THEN /\ e.type = "chunk_completed" /\ e.agent_id = a /\ e.chunk_index = chunk
         /\ ~e.failed
         /\ e.findings_count = Cardinality(AnnouncedBefore(a, chunk, j))
    ELSE /\ e.type = "agent_completed" /\ e.agent_id = a
         /\ e.findings_count = Cardinality(AnnouncedBefore(a, chunk, j))

\* C32: the accumulator holds, finding for finding and in the same order, the
\* findings of the finding-discovered events on the feed, so every appended
\* finding has exactly one event and no event is of a finding that was not
\* appended; the list the Assembler is invoked with is that list; and every
\* finding-discovered event is followed by the chunk-completed or
\* stage-completed event that counts it.
C32_FeedMatchesAccumulator ==
    /\ [i \in 1..Len(all_findings) |-> all_findings[i].id]
          = [i \in 1..Len(Announced) |-> Announced[i].id]
    /\ \A k \in DOMAIN assembler_calls : assembler_calls[k].findings = Announced
    /\ \A i \in Events("finding_discovered") :
          \E j \in (i + 1)..Len(event_queue) :
              Counts(j, event_queue[i].finding.id[1], event_queue[i].finding.id[2])

\* The Assembler was invoked with findings of Clarity and of Adversary.
C32_Witness ==
    /\ assembler_calls # <<>>
    /\ FindingsOf(assembler_calls[1].findings, "clarity") # <<>>
    /\ FindingsOf(assembler_calls[1].findings, "adversary") # <<>>

\* ------------------------------------------------------------------ properties of the cancellation
\* The consumer has left its loop: the cleanup cancels the tasks, or is over.
CancellationBegun == consumer \in {"cleanup", "stopped"}

\* C33: once the cancellation of a run has begun, no agent that had not yet
\* started begins its work: none puts its stage-started event or makes its
\* completion calls, and none spawns chunk tasks.
C33_NoStartAfterCancel ==
    [][CancellationBegun =>
          \A a \in AgentTasks :
              /\ Started(a)' => Started(a)
              /\ a \in FanOut => DOMAIN chunk_tasks'[a] = DOMAIN chunk_tasks[a]]_vars

\* ------------------------------------------------------------------ properties of the finalization task
\* A non-recoverable error event put after the Assembler's stage-started event.
TerminalErrorAfterAssembly ==
    \E i \in Events("error") :
        /\ ~event_queue[i].recoverable
        /\ EventOf("agent_started", "assembler") \in 1..(i - 1)

\* C34: when the finalization task has ended other than by being cancelled,
\* the end-of-stream signal or a terminal error event of its own is on the
\* queue, so that the consumer's get returns and its loop ends.
C34_FinalizationReleasesConsumer ==
    pc["complete"] \in {"done", "failed"} =>
        EndOfStream \in Range(event_queue) \/ TerminalErrorAfterAssembly

\* ------------------------------------------------------------------ properties of the latches under failure
\* C35: when a launched Briefing, Domain or RigorFind task has ended, however
\* it ended, its latch is open, so that no dependent waits for it forever.
C35_LatchOpenWhenTaskEnded ==
    \A t \in {"briefing", "domain", "rigor_find"} :
        (Launched(t) /\ pc[t] \in Ended) => Latch(t)

\* ------------------------------------------------------------------ properties of the overlap resolution
\* The findings of run r that go through the overlap resolution, and what the
\* resolution did with them.
Contenders(r) ==
    SelectSeq(IF input_doc.given THEN _validate_findings(submitted[r], input_doc)
              ELSE submitted[r],
              LAMBDA f : f.track # "B")

ResolutionsOf(r) ==
    IF Contenders(r) = <<>> THEN <<>> ELSE Resolved(Contenders(r)).resolutions

\* C36: every conflict the resolution decides is won by a finding that is in
\* the output of the run, and never by a finding that lost an earlier
\* conflict: such a finding causes no discard and is given no merged tags.
C36_WinnersAreKept ==
    \A r \in DOMAIN review_outputs :
        \A k \in DOMAIN ResolutionsOf(r) :
            /\ ResolutionsOf(r)[k].winner \in Ids(review_outputs[r].findings)
            /\ \A j \in 1..(k - 1) : ResolutionsOf(r)[j].loser # ResolutionsOf(r)[k].winner


\* The findings of a list that are not Methodology findings.
NonMethodology(findings) == SelectSeq(findings, LAMBDA f : f.track # "B")

\* C37: no two distinct Writing or Argumentation findings of the output overlap
\* on a paragraph both anchor, whichever of their anchors meet there.
C37_NoOverlapLeft ==
    \A r \in DOMAIN review_outputs :
        LET out == NonMethodology(review_outputs[r].findings)
        IN \A i, j \in 1..Len(out) : i # j => ~Overlapping(out[i], out[j])

\* A run of three Writing or Argumentation findings, two of which meet only
\* through the second anchor of one of them, in a paragraph other than that of
\* its first anchor; one of the two is discarded and two findings come out.
C37_Witness ==
    \E r \in DOMAIN review_outputs :
        /\ Len(NonMethodology(review_outputs[r].findings)) = 2
        /\ \E f, g \in Range(NonMethodology(submitted[r])) :
              /\ Len(f.anchors) > 1
              /\ PassesValidation(f) /\ PassesValidation(g)
              /\ ~_findings_overlap(f, g, f.anchors[1].paragraph_id)
              /\ _findings_overlap(f, g, f.anchors[2].paragraph_id)
              /\ Len(WithId(review_outputs[r].findings, f))
                    + Len(WithId(review_outputs[r].findings, g)) = 1


\* The event at position i says that stage u ended: its stage-completed event,
\* or the error event of its failure (only Briefing's failure puts one).
SignalsEndOf(i, u) ==
    \/ /\ event_queue[i].type = "agent_completed"
       /\ event_queue[i].agent_id = u
    \/ /\ event_queue[i].type = "error"
       /\ u = "briefing"

\* The event at position i is a chunk-completed or finding-discovered event of
\* agent a.
PartialResultOf(i, a) ==
    \/ /\ event_queue[i].type = "chunk_completed"
       /\ event_queue[i].agent_id = a
    \/ /\ event_queue[i].type = "finding_discovered"
       /\ event_queue[i].finding.agent_id = a

\* Every stage-started event on the feed comes after a stage-completed or error
\* event of each stage of the run that the starting stage depends on.
UpstreamEndsBeforeStart ==
    \A s \in Events("agent_started") :
        \A u \in Edges(event_queue[s].agent_id) :
            Launched(u) => \E i \in 1..(s - 1) : SignalsEndOf(i, u)

\* The chunk-completed and finding-discovered events of an agent stand after
\* its stage-started event and before its stage-completed event.
StartedThenPartialThenCompleted ==
    \A a \in AgentTasks :
        \A i \in 1..Len(event_queue) :
            PartialResultOf(i, a) =>
                /\ EventOf("agent_started", a) \in 1..(i - 1)
                /\ \A c \in Events("agent_completed") : event_queue[c].agent_id = a => i < c

\* C38: the feed reflects the dependency graph: the stage-completed or error
\* event of an upstream stage precedes the stage-started event of every stage
\* that depends on it, and the stage-started event of an agent precedes its
\* chunk-completed and finding-discovered events, which precede its
\* stage-completed event.
C38_FeedReflectsTheGraph ==
    /\ UpstreamEndsBeforeStart
    /\ StartedThenPartialThenCompleted


\* The agent's own except branch ran, or its exception left the task.
FailedAsAWhole(a) == a \in log_errors \/ pc[a] = "failed"

\* The positions of the stage-completed events of agent a on the feed.
StageCompleted(a) == {i \in Events("agent_completed") : event_queue[i].agent_id = a}

\* C39: an agent that put its stage-started event and ended without failing as
\* a whole has put exactly one stage-completed event, ahead of the run-completed
\* event; no agent puts two. A fan-out agent with no successful chunk, or with
\* no chunk at all, is such an agent.
C39_OneStageCompleted ==
    \A a \in AgentTasks :
        /\ Cardinality(StageCompleted(a)) <= 1
        /\ (EventOf("agent_started", a) > 0 /\ pc[a] = "done" /\ ~FailedAsAWhole(a))
              => Cardinality(StageCompleted(a)) = 1
        /\ \A c \in StageCompleted(a), e \in Events("review_completed") : c < e

====
